---- MODULE Spec2Model ----
(***************************************************************************)
(* TimeSliderControl (src/src/lib/core/TimeSliderControl.ts) as a state    *)
(* machine.  JavaScript is single threaded and every operation of the      *)
(* control is synchronous, so an action of the model is one whole call     *)
(* from outside the control (or one firing of the playback interval),      *)
(* with everything it runs: the callbacks it invokes and whatever those    *)
(* callbacks do.  User code (the onChange callback, an event handler) may  *)
(* return, throw, or call back into the control; the action draws that     *)
(* behaviour nondeterministically.  While a call runs, the code still to   *)
(* run after the current callback is kept in `stack`, a sequence of        *)
(* pending tasks.                                                          *)
(***************************************************************************)
EXTENDS Integers, Sequences, FiniteSets, TLC

VARIABLES
  _options,           \* _options.labels and whether _options.onChange is set
  _state,             \* TimeSliderState: currentIndex, isPlaying, speed, loop, collapsed
  _playbackInterval,  \* the handle kept by the control, 0 for undefined
  timers,             \* the intervals the runtime has active: records [id, ms]
  _eventHandlers,     \* event -> handlers in insertion order (a JS Set)
  _map,               \* TRUE while _map/_panel/_container are set
  log,                \* what the last call from outside notified, in order
  cur,                \* the last call from outside, the state it started from, how it ended
  held                \* the objects code outside the control keeps: a state snapshot, a label array

vars == <<_options, _state, _playbackInterval, timers, _eventHandlers, _map, log, cur, held>>

(***************************************************************************)
(* Bounds of the model.                                                    *)
(***************************************************************************)
MaxLen == 3        \* longest label sequence
MaxReentrant == 1  \* calls back into the control made by user code during one call

(***************************************************************************)
(* Values.                                                                 *)
(***************************************************************************)
Alphabet == <<"a", "b", "c", "d", "e">>
Prefix(n) == [i \in 1..n |-> Alphabet[i]]
LabelChoices == {<<>>, <<"x", "y">>, Prefix(MaxLen)}
IndexChoices == (0 - 1)..MaxLen
MinSpeed == 100
SpeedChoices == {0 - 5, 10, 100, 1000}
TimeSliderEvent == {"collapse", "expand", "statechange", "change", "play", "pause"}
Handlers == {"h1", "h2"}
Undefined == "undefined"

Max(a, b) == IF a >= b THEN a ELSE b
Min(a, b) == IF a <= b THEN a ELSE b

\* labels[i] of a JavaScript array (0-based), undefined outside it
At(labels, i) == IF i >= 0 /\ i < Len(labels) THEN labels[i + 1] ELSE Undefined

\* An object as code outside the control holds it: `same` says that it is
\* the very object the control keeps (a reference was passed), and then
\* its content is the control's; otherwise it is an object of its own
\* with content v.  Spread ({ ...x }, [...x]) makes a new object.
Spread(x) == [same |-> FALSE, v |-> x]
Reference(x) == [same |-> TRUE, v |-> x]
\* mirror is what the caller's onChange has noted: nothing, or the index
\* it was last given
NothingHeld == [snapshot |-> <<>>, array |-> <<>>, mirror |-> <<>>]

DEFAULT_OPTIONS ==
  [collapsed |-> TRUE, labels |-> <<>>, initialIndex |-> 0, speed |-> 1000,
   loop |-> TRUE, onChange |-> FALSE]

(***************************************************************************)
(* The machine: the program's variables as one record, so that operations  *)
(* compose as functions.                                                   *)
(***************************************************************************)
M ==
  [options |-> _options, state |-> _state, interval |-> _playbackInterval,
   timers |-> timers, handlers |-> _eventHandlers, map |-> _map,
   stack |-> <<>>, log |-> <<>>, threw |-> FALSE, re |-> 0]

\* tasks (records are written with their fields in the order TLC keeps them)
EmitTask(ev) == [n |-> 0, ev |-> ev, k |-> "emit", op |-> "", pos |-> 0, snap |-> <<>>]
CallTask(op) == [n |-> 0, ev |-> "", k |-> "call", op |-> op, pos |-> 0, snap |-> <<>>]
IterTask(ev, snap) ==
  [n |-> 0, ev |-> ev, k |-> "iter", op |-> "", pos |-> 0, snap |-> snap]
\* user code running: op is "onChange" or the handler's name
CbFrame(who, ev, snap) ==
  [n |-> 0, ev |-> ev, k |-> "cb", op |-> who, pos |-> 0, snap |-> snap]

Push(m, tasks) == [m EXCEPT !.stack = tasks \o @]
Logged(m, entry) == [m EXCEPT !.log = Append(@, entry)]
Depth(s) == Cardinality({i \in DOMAIN s : s[i].k = "cb"})

getState(m) == m.state
\* getState handing out the state object itself
getState_same(m) == Reference(m.state)
\* the object getState() returns: { ...this._state }
getStateObject(m) == Spread(getState(m))
getCurrentIndex(m) == m.state.currentIndex
getCurrentLabel(m) ==
  IF At(m.options.labels, m.state.currentIndex) = Undefined
  THEN "" ELSE At(m.options.labels, m.state.currentIndex)
getLabels(m) == m.options.labels
\* the object getLabels() returns: [...this._options.labels]
getLabelsObject(m) == Spread(getLabels(m))
\* the array the control keeps after the constructor's
\* { ...DEFAULT_OPTIONS, ...options } and after setLabels'
\* this._options.labels = labels: the caller's array
KeptLabels(labels) == Reference(labels)

\* What the outside can observe of a call, in order.  t is "call" (who is
\* called with argument i, from outside or from a callback), "emit" (_emit
\* of ev), "handler" (handler who invoked for ev with the payload state
\* snap) or "onChange" (the callback invoked with index i and label l).
\* d is the number of callbacks running; now, labels and timers are the
\* runtime state, the labels and the number of active intervals then.
Entry(m, t, who, ev, i, l, snap) ==
  [t |-> t, who |-> who, ev |-> ev, d |-> Depth(m.stack), i |-> i, l |-> l,
   snap |-> snap, now |-> m.state, labels |-> m.options.labels,
   timers |-> Cardinality(m.timers)]

\* _emit: one snapshot is taken and the handlers of the event are visited
\* in insertion order.
_emit(m, event) ==
  LET m1 == Logged(m, Entry(m, "emit", "", event, 0, "", getState(m)))
  IN IF m.handlers[event] = <<>> THEN m1
     ELSE Push(m1, <<IterTask(event, getState(m))>>)

\* one step of handlers.forEach: the next handler of the live set, if any
forEach(m) ==
  LET it == Head(m.stack)
      hs == m.handlers[it.ev]
  IN IF it.pos < Len(hs)
     THEN Logged([m EXCEPT !.stack = <<CbFrame(hs[it.pos + 1], it.ev, it.snap),
                                        [it EXCEPT !.pos = @ + 1]>> \o Tail(@)],
                 Entry(m, "handler", hs[it.pos + 1], it.ev, 0, "", it.snap))
     ELSE [m EXCEPT !.stack = Tail(@)]

_triggerChange(m) ==
  IF m.options.onChange
  THEN Push(Logged(m, Entry(m, "onChange", "onChange", "", m.state.currentIndex,
                              At(m.options.labels, m.state.currentIndex), getState(m))),
            <<CbFrame("onChange", "", getState(m))>>)
  ELSE m

\* setLabels notifying as a navigation does when it moves the index
setLabels_notifies(m, labels, resetIndex) ==
  LET m1 == [m EXCEPT !.options.labels = labels]
      m2 == IF resetIndex \/ m1.state.currentIndex >= Len(labels)
            THEN [m1 EXCEPT !.state.currentIndex = 0] ELSE m1
  IN IF m2.state.currentIndex # m.state.currentIndex
     THEN Push(m2, <<CallTask("_triggerChange"), EmitTask("change"),
                     EmitTask("statechange")>>)
     ELSE Push(m2, <<EmitTask("statechange")>>)

setLabels(m, labels, resetIndex) ==
  LET m1 == [m EXCEPT !.options.labels = labels]
      m2 == IF resetIndex \/ m1.state.currentIndex >= Len(labels)
            THEN [m1 EXCEPT !.state.currentIndex = 0] ELSE m1
  IN Push(m2, <<EmitTask("statechange")>>)

\* goTo without the lower clamp
goTo_noFloor(m, index) ==
  LET maxIndex == Len(m.options.labels) - 1
      clampedIndex == Min(index, maxIndex)
  IN IF clampedIndex # m.state.currentIndex
     THEN Push([m EXCEPT !.state.currentIndex = clampedIndex],
               <<CallTask("_triggerChange"), EmitTask("change"), EmitTask("statechange")>>)
     ELSE m

\* goTo clamping to the length instead of the last index
goTo_offByOne(m, index) ==
  LET maxIndex == Len(m.options.labels)
      clampedIndex == Max(0, Min(index, maxIndex))
  IN IF clampedIndex # m.state.currentIndex
     THEN Push([m EXCEPT !.state.currentIndex = clampedIndex],
               <<CallTask("_triggerChange"), EmitTask("change"), EmitTask("statechange")>>)
     ELSE m

\* goTo notifying even when the index stays
goTo_always(m, index) ==
  LET maxIndex == Len(m.options.labels) - 1
      clampedIndex == Max(0, Min(index, maxIndex))
  IN Push([m EXCEPT !.state.currentIndex = clampedIndex],
          <<CallTask("_triggerChange"), EmitTask("change"), EmitTask("statechange")>>)

\* goTo notifying without having assigned the index
goTo_uncommitted(m, index) ==
  LET maxIndex == Len(m.options.labels) - 1
      clampedIndex == Max(0, Min(index, maxIndex))
  IN IF clampedIndex # m.state.currentIndex
     THEN Push(m, <<CallTask("_triggerChange"), EmitTask("change"), EmitTask("statechange")>>)
     ELSE m

\* goTo emitting its events without the callback
goTo_noCallback(m, index) ==
  LET maxIndex == Len(m.options.labels) - 1
      clampedIndex == Max(0, Min(index, maxIndex))
  IN IF clampedIndex # m.state.currentIndex
     THEN Push([m EXCEPT !.state.currentIndex = clampedIndex],
               <<EmitTask("change"), EmitTask("statechange")>>)
     ELSE m

\* goTo emitting change before the callback
goTo_emitFirst(m, index) ==
  LET maxIndex == Len(m.options.labels) - 1
      clampedIndex == Max(0, Min(index, maxIndex))
  IN IF clampedIndex # m.state.currentIndex
     THEN Push([m EXCEPT !.state.currentIndex = clampedIndex],
               <<EmitTask("change"), CallTask("_triggerChange"), EmitTask("statechange")>>)
     ELSE m

goTo(m, index) ==
  LET maxIndex == Len(m.options.labels) - 1
      clampedIndex == Max(0, Min(index, maxIndex))
  IN IF clampedIndex # m.state.currentIndex
     THEN Push([m EXCEPT !.state.currentIndex = clampedIndex],
               <<CallTask("_triggerChange"), EmitTask("change"), EmitTask("statechange")>>)
     ELSE m

\* next stopping at the last index whatever loop says
next_noLoop(m) ==
  LET maxIndex == Len(m.options.labels) - 1
  IN IF m.state.currentIndex < maxIndex THEN goTo(m, m.state.currentIndex + 1)
     ELSE m

next(m) ==
  LET maxIndex == Len(m.options.labels) - 1
  IN IF m.state.currentIndex < maxIndex THEN goTo(m, m.state.currentIndex + 1)
     ELSE IF m.state.loop THEN goTo(m, 0)
     ELSE m

\* prev wrapping to index 0 instead of the last index
prev_wrapToFirst(m) ==
  IF m.state.currentIndex > 0 THEN goTo(m, m.state.currentIndex - 1)
  ELSE IF m.state.loop THEN goTo(m, 0)
  ELSE m

prev(m) ==
  IF m.state.currentIndex > 0 THEN goTo(m, m.state.currentIndex - 1)
  ELSE IF m.state.loop THEN goTo(m, Len(m.options.labels) - 1)
  ELSE m

\* setInterval: a fresh handle, the timer active from now on
FreshId(m) ==
  CHOOSE id \in 1..(Cardinality(m.timers) + 2) :
    /\ id # m.interval
    /\ \A t \in m.timers : t.id # id
    /\ \A j \in 1..(id - 1) : j = m.interval \/ \E t \in m.timers : t.id = j
setInterval(m, ms) ==
  [m EXCEPT !.interval = FreshId(m),
            !.timers = @ \cup {[id |-> FreshId(m), ms |-> ms]}]
clearInterval(m, id) == [m EXCEPT !.timers = {t \in @ : t.id # id}]

\* play starting a timer although there are no labels
play_onEmpty(m) ==
  IF m.state.isPlaying THEN m
  ELSE Push(setInterval([m EXCEPT !.state.isPlaying = TRUE], m.state.speed),
            <<EmitTask("play"), EmitTask("statechange")>>)

\* play setting the flag and starting no timer
play_noTimer(m) ==
  IF m.state.isPlaying \/ Len(m.options.labels) = 0 THEN m
  ELSE Push([m EXCEPT !.state.isPlaying = TRUE],
            <<EmitTask("play"), EmitTask("statechange")>>)

\* play starting a timer although one is running
play_again(m) ==
  IF Len(m.options.labels) = 0 THEN m
  ELSE Push(setInterval([m EXCEPT !.state.isPlaying = TRUE], m.state.speed),
            <<EmitTask("play"), EmitTask("statechange")>>)

play(m) ==
  IF m.state.isPlaying \/ Len(m.options.labels) = 0 THEN m
  ELSE Push(setInterval([m EXCEPT !.state.isPlaying = TRUE], m.state.speed),
            <<EmitTask("play"), EmitTask("statechange")>>)

\* pause leaving the interval running
pause_keepTimer(m) ==
  IF ~m.state.isPlaying THEN m
  ELSE Push([m EXCEPT !.state.isPlaying = FALSE, !.interval = 0],
            <<EmitTask("pause"), EmitTask("statechange")>>)

\* pause emitting pause alone
pause_noStateChange(m) ==
  IF ~m.state.isPlaying THEN m
  ELSE LET m1 == [m EXCEPT !.state.isPlaying = FALSE]
           m2 == IF m1.interval # 0
                 THEN [clearInterval(m1, m1.interval) EXCEPT !.interval = 0]
                 ELSE m1
       IN Push(m2, <<EmitTask("pause")>>)

pause(m) ==
  IF ~m.state.isPlaying THEN m
  ELSE LET m1 == [m EXCEPT !.state.isPlaying = FALSE]
           m2 == IF m1.interval # 0
                 THEN [clearInterval(m1, m1.interval) EXCEPT !.interval = 0]
                 ELSE m1
       IN Push(m2, <<EmitTask("pause"), EmitTask("statechange")>>)

\* a tick pausing at the last label whatever loop says
tick_noLoop(m) ==
  LET maxIndex == Len(m.options.labels) - 1
  IN IF m.state.currentIndex < maxIndex THEN goTo(m, m.state.currentIndex + 1)
     ELSE pause(m)

\* a tick stopping silently at the end, as next() does
tick_silent(m) ==
  LET maxIndex == Len(m.options.labels) - 1
  IN IF m.state.currentIndex < maxIndex THEN goTo(m, m.state.currentIndex + 1)
     ELSE IF m.state.loop THEN goTo(m, 0)
     ELSE m

\* the callback given to setInterval in play()
tick(m) ==
  LET maxIndex == Len(m.options.labels) - 1
  IN IF m.state.currentIndex < maxIndex THEN goTo(m, m.state.currentIndex + 1)
     ELSE IF m.state.loop THEN goTo(m, 0)
     ELSE pause(m)

\* togglePlayback that only ever starts
togglePlayback_playOnly(m) == play(m)

togglePlayback(m) == IF m.state.isPlaying THEN pause(m) ELSE play(m)

\* setSpeed leaving the running interval as it is
setSpeed_noRestart(m, speed) ==
  Push([m EXCEPT !.state.speed = Max(MinSpeed, speed)], <<EmitTask("statechange")>>)

\* setSpeed storing the speed as given
setSpeed_noFloor(m, speed) ==
  LET m1 == [m EXCEPT !.state.speed = speed]
  IN IF m1.state.isPlaying
     THEN Push(m1, <<CallTask("pause"), CallTask("play"), EmitTask("statechange")>>)
     ELSE Push(m1, <<EmitTask("statechange")>>)

setSpeed(m, speed) ==
  LET m1 == [m EXCEPT !.state.speed = Max(MinSpeed, speed)]
  IN IF m1.state.isPlaying
     THEN Push(m1, <<CallTask("pause"), CallTask("play"), EmitTask("statechange")>>)
     ELSE Push(m1, <<EmitTask("statechange")>>)

\* setLoop flipping the flag instead of setting it
setLoop_flip(m, enabled) ==
  Push([m EXCEPT !.state.loop = ~@], <<EmitTask("statechange")>>)

setLoop(m, enabled) ==
  Push([m EXCEPT !.state.loop = enabled], <<EmitTask("statechange")>>)

\* toggle that also rewinds to the first label
toggle_rewinding(m) ==
  LET m1 == [m EXCEPT !.state.collapsed = ~@, !.state.currentIndex = 0]
  IN IF m1.map
     THEN Push(m1, <<EmitTask(IF m1.state.collapsed THEN "collapse" ELSE "expand"),
                     EmitTask("statechange")>>)
     ELSE Push(m1, <<EmitTask("statechange")>>)

\* toggle flips collapsed; attached, it emits collapse or expand; then
\* statechange
toggle(m) ==
  LET m1 == [m EXCEPT !.state.collapsed = ~@]
  IN IF m1.map
     THEN Push(m1, <<EmitTask(IF m1.state.collapsed THEN "collapse" ELSE "expand"),
                     EmitTask("statechange")>>)
     ELSE Push(m1, <<EmitTask("statechange")>>)

expand(m) == IF m.state.collapsed THEN toggle(m) ELSE m
collapse(m) == IF ~m.state.collapsed THEN toggle(m) ELSE m

\* on keeping a list of handlers instead of a set
on_again(m, event, handler) ==
  [m EXCEPT !.handlers[event] = Append(@, handler)]

\* Set.add keeps the first insertion; Set.delete of an entry already visited
\* by a running forEach moves that iteration's position back with the list.
on(m, event, handler) ==
  IF \E i \in 1..Len(m.handlers[event]) : m.handlers[event][i] = handler THEN m
  ELSE [m EXCEPT !.handlers[event] = Append(@, handler)]

IndexOf(s, x) == CHOOSE i \in 1..Len(s) : s[i] = x
Without(s, p) == [i \in 1..(Len(s) - 1) |-> IF i < p THEN s[i] ELSE s[i + 1]]
off(m, event, handler) ==
  LET hs == m.handlers[event]
  IN IF \A i \in 1..Len(hs) : hs[i] # handler THEN m
     ELSE LET p == IndexOf(hs, handler)
          IN [m EXCEPT !.handlers[event] = Without(hs, p),
                       !.stack = [i \in DOMAIN @ |->
                          IF @[i].k = "iter" /\ @[i].ev = event /\ @[i].pos >= p
                          THEN [@[i] EXCEPT !.pos = @ - 1] ELSE @[i]]]

\* onAdd notifying whether or not there is a label
onAdd_unguarded(m) == _triggerChange([m EXCEPT !.map = TRUE])

onAdd(m) ==
  LET m1 == [m EXCEPT !.map = TRUE]
  IN IF Len(m1.options.labels) > 0 THEN _triggerChange(m1) ELSE m1

\* onRemove after its pause(): listeners, elements, references, handlers
onRemove_teardown(m) ==
  [m EXCEPT !.map = FALSE,
            !.handlers = [e \in TimeSliderEvent |-> <<>>],
            !.stack = [i \in DOMAIN @ |->
                         IF @[i].k = "iter" THEN [@[i] EXCEPT !.pos = 0] ELSE @[i]]]

onRemove(m) == Push(m, <<CallTask("pause"), CallTask("onRemove_teardown")>>)


(***************************************************************************)
(* Calls.  A call names an operation and its arguments; unused arguments   *)
(* keep a default.                                                         *)
(***************************************************************************)
Call(op, i, ls, b, ev) == [i |-> i, b |-> b, ev |-> ev, op |-> op, ls |-> ls]
Call0(op) == Call(op, 0, <<>>, FALSE, "")

Apply(m, c) ==
  CASE c.op = "goTo" -> goTo(m, c.i)
    [] c.op = "next" -> next(m)
    [] c.op = "prev" -> prev(m)
    [] c.op = "play" -> play(m)
    [] c.op = "pause" -> pause(m)
    [] c.op = "togglePlayback" -> togglePlayback(m)
    [] c.op = "setSpeed" -> setSpeed(m, c.i)
    [] c.op = "setLoop" -> setLoop(m, c.b)
    [] c.op = "setLabels" -> setLabels(m, c.ls, c.b)
    [] c.op = "toggle" -> toggle(m)
    [] c.op = "expand" -> expand(m)
    [] c.op = "collapse" -> collapse(m)
    [] c.op = "on" -> on(m, c.ev, c.ls)
    [] c.op = "off" -> off(m, c.ev, c.ls)
    [] c.op = "onAdd" -> onAdd(m)
    [] c.op = "onRemove" -> onRemove(m)
    [] c.op = "tick" -> tick(m)
    [] c.op = "_triggerChange" -> _triggerChange(m)
    [] c.op = "onRemove_teardown" -> onRemove_teardown(m)

\* A call as it enters the control: recorded, then run.
Enter(m, c) == Apply(Logged(m, Entry(m, "call", c.op, c.ev, c.i, "", getState(m))), c)

\* What user code calls from inside a callback.
ReentrantCalls ==
  {Call0("play"), Call0("pause"), Call("goTo", 0, <<>>, FALSE, ""),
   Call("setLabels", 0, <<>>, TRUE, "")}

\* Every way the pending tasks can run to the end of the outermost call.
\* User code at the head of the stack returns, throws (nothing in the
\* control catches, so every pending task is dropped) or calls back in.
RECURSIVE Exec(_)
\* a throw that is noted and does not stop what follows
Exec_swallowed(m) ==
  IF m.stack = <<>> THEN {m}
  ELSE LET t == Head(m.stack)
           rest == [m EXCEPT !.stack = Tail(@)]
       IN CASE t.k = "cb" ->
                 Exec(rest)
                 \cup Exec([rest EXCEPT !.threw = TRUE])
                 \cup (IF m.re < MaxReentrant
                       THEN UNION {Exec(Enter([m EXCEPT !.re = @ + 1], c)) :
                                     c \in ReentrantCalls}
                       ELSE {})
            [] t.k = "emit" -> Exec(_emit(rest, t.ev))
            [] t.k = "iter" -> Exec(forEach(m))
            [] t.k = "call" -> Exec(Apply(rest, Call0(t.op)))

Exec(m) ==
  IF m.stack = <<>> THEN {m}
  ELSE LET t == Head(m.stack)
           rest == [m EXCEPT !.stack = Tail(@)]
       IN CASE t.k = "cb" ->
                 Exec(rest)
                 \cup {[m EXCEPT !.stack = <<>>, !.threw = TRUE]}
                 \cup (IF m.re < MaxReentrant
                       THEN UNION {Exec(Enter([m EXCEPT !.re = @ + 1], c)) :
                                     c \in ReentrantCalls}
                       ELSE {})
            [] t.k = "emit" -> Exec(_emit(rest, t.ev))
            [] t.k = "iter" -> Exec(forEach(m))
            [] t.k = "call" -> Exec(Apply(rest, Call0(t.op)))

Registrations(hs) ==
  Cardinality({<<e, i>> \in TimeSliderEvent \X (1..Cardinality(Handlers)) : i <= Len(hs[e])})

Pre ==
  [options |-> _options, state |-> _state, interval |-> _playbackInterval,
   timers |-> timers, handlers |-> _eventHandlers, map |-> _map]

\* status: "new" right after construction, "done" or "threw" right after a
\* call from outside returned or threw, "idle" otherwise
IdleCur == [re |-> 0, status |-> "idle", call |-> Call0(""), pre |-> <<>>]

\* a call from outside any operation of the control, run to its end
Invoke(c) ==
  /\ cur.status \in {"new", "idle"}
  /\ \E m \in Exec(Enter(M, c)) :
       /\ _options' = m.options
       /\ _state' = m.state
       /\ _playbackInterval' = m.interval
       /\ timers' = m.timers
       /\ _eventHandlers' = m.handlers
       /\ _map' = m.map
       /\ log' = m.log
       /\ held' = held
       /\ cur' = [status |-> IF m.threw THEN "threw" ELSE "done",
                  call |-> c, pre |-> Pre, re |-> m.re]

\* the caller goes on: the record of the call is dropped
Return ==
  /\ cur.status \in {"done", "threw"}
  /\ cur' = IdleCur
  /\ log' = <<>>
  /\ UNCHANGED <<held, _options, _state, _playbackInterval, timers, _eventHandlers, _map>>

(***************************************************************************)
(* constructor                                                             *)
(***************************************************************************)
constructor(options) ==
  [options |-> [labels |-> options.labels, onChange |-> options.onChange],
   state |-> [collapsed |-> options.collapsed,
              currentIndex |-> options.initialIndex,
              isPlaying |-> FALSE,
              speed |-> options.speed,
              loop |-> options.loop],
   interval |-> 0,
   timers |-> {},
   handlers |-> [e \in TimeSliderEvent |-> <<>>],
   map |-> FALSE]

\* The options Spec constructs with: any labels, initialIndex, loop and
\* onChange, the default speed and collapsed.
OptionChoices ==
  [collapsed : {DEFAULT_OPTIONS.collapsed}, labels : LabelChoices,
   initialIndex : IndexChoices, speed : {DEFAULT_OPTIONS.speed}, loop : BOOLEAN,
   onChange : BOOLEAN]

\* The registrations made with on() before the behaviour starts: at most
\* k, the first by h1 and the second by h2, for events among evs.
RECURSIVE RegisteredUpTo(_, _)
RegisteredUpTo(k, evs) ==
  IF k = 0 THEN {[e \in TimeSliderEvent |-> <<>>]}
  ELSE RegisteredUpTo(k - 1, evs)
       \cup {on([handlers |-> hs], e, IF k = 1 THEN "h1" ELSE "h2").handlers :
               hs \in {x \in RegisteredUpTo(k - 1, evs) : Registrations(x) = k - 1},
               e \in evs}

\* the events the operations of Spec emit
PlaybackEvents == {"statechange", "change", "play", "pause"}

Init ==
  \E o \in OptionChoices, hs \in RegisteredUpTo(1, PlaybackEvents) :
    LET m == constructor(o)
    IN /\ _options = m.options
       /\ _state = m.state
       /\ _playbackInterval = m.interval
       /\ timers = m.timers
       /\ _eventHandlers = hs
       /\ _map = m.map
       /\ log = <<>>
       /\ held = NothingHeld
       /\ cur = [IdleCur EXCEPT !.status = "new",
                             !.call = Call("constructor", o.initialIndex, o.labels, FALSE, "")]

GoTo == \E i \in IndexChoices : Invoke(Call("goTo", i, <<>>, FALSE, ""))
NextLabel == Invoke(Call0("next"))
PrevLabel == Invoke(Call0("prev"))
Play == Invoke(Call0("play"))
Pause == Invoke(Call0("pause"))
TogglePlayback == Invoke(Call0("togglePlayback"))
SetSpeed == \E s \in SpeedChoices : Invoke(Call("setSpeed", s, <<>>, FALSE, ""))
SetLoop == \E b \in BOOLEAN : Invoke(Call("setLoop", 0, <<>>, b, ""))
SetLabels == \E ls \in LabelChoices, b \in BOOLEAN : Invoke(Call("setLabels", 0, ls, b, ""))
OnAdd == Invoke(Call0("onAdd"))
OnRemove == Invoke(Call0("onRemove"))
\* the runtime fires an active interval between two calls
Tick == \E t \in timers : Invoke(Call("tick", t.id, <<>>, FALSE, ""))

Next ==
  \/ GoTo \/ NextLabel \/ PrevLabel \/ Play \/ Pause \/ TogglePlayback
  \/ SetSpeed \/ SetLoop \/ SetLabels \/ OnRemove \/ Tick
  \/ Return

Spec == Init /\ [][Next]_vars

(***************************************************************************)
(* Vocabulary of the properties.  They are read in the states right after  *)
(* a call from outside ended (cur.status is "done" or "threw"): cur.pre is *)
(* the state the call started from, cur.call the call, log what it         *)
(* notified and cur.re the number of calls user code made back into the    *)
(* control while it ran.                                                   *)
(***************************************************************************)
Ended == cur.status \in {"done", "threw"}
Returned == cur.status = "done"
Called(op) == Ended /\ cur.call.op = op
InRange(i, labels) == 0 <= i /\ i <= Len(labels) - 1
Clamped(i, labels) == Max(0, Min(i, Len(labels) - 1))
IsPrefix(s, t) == Len(s) <= Len(t) /\ \A i \in 1..Len(s) : s[i] = t[i]
Tag(e) == IF e.t = "emit" THEN e.ev ELSE e.t
Tags(es) == [j \in 1..Len(es) |-> Tag(es[j])]
Ordered(idxs) ==
  [j \in 1..Cardinality(idxs) |->
     log[CHOOSE q \in idxs : Cardinality({r \in idxs : r < q}) = j - 1]]
\* the callback invocations and emissions made by the call recorded at p
\* itself, not by calls nested in it
Notified(p) ==
  Ordered({q \in (p + 1)..Len(log) :
             /\ log[q].d = log[p].d
             /\ log[q].t \in {"onChange", "emit"}
             /\ \A r \in (p + 1)..q : ~(log[r].t = "call" /\ log[r].d = log[p].d)})
CallsOf(op) == {p \in DOMAIN log : log[p].t = "call" /\ log[p].who = op}
Passive == cur.re = 0
NoCallback == \A q \in DOMAIN log : log[q].t \notin {"onChange", "handler"}

(***************************************************************************)
(* C1.  From a non-empty label sequence with currentIndex in bounds,       *)
(* goTo(i) for any i, next(), prev(), a tick and setLabels leave           *)
(* currentIndex in bounds whenever the labels are non-empty: when the call *)
(* ends and at every moment it notified anything.                          *)
(***************************************************************************)
C1_BoundsKept ==
  (/\ Ended
   /\ cur.call.op \in {"goTo", "next", "prev", "tick", "setLabels"}
   /\ Len(cur.pre.options.labels) > 0
   /\ InRange(cur.pre.state.currentIndex, cur.pre.options.labels))
  => /\ Len(_options.labels) > 0 => InRange(_state.currentIndex, _options.labels)
     /\ \A q \in DOMAIN log :
          Len(log[q].labels) > 0 => InRange(log[q].now.currentIndex, log[q].labels)

C1_Witness ==
  /\ Called("goTo") /\ cur.call.i = 0 - 1
  /\ Len(cur.pre.options.labels) = MaxLen
  /\ cur.pre.state.currentIndex = 1
  /\ _state.currentIndex = 0

(***************************************************************************)
(* C2.  Right after construction currentIndex is initialIndex clamped into *)
(* [0, labels.length-1], and 0 when there are no labels.                   *)
(***************************************************************************)
C2_InitialIndexClamped ==
  cur.status = "new" =>
    _state.currentIndex =
      IF Len(_options.labels) > 0 THEN Clamped(cur.call.i, _options.labels) ELSE 0

(***************************************************************************)
(* C3.  With non-empty labels, when goTo(i) returns and no callback called *)
(* back into the control, currentIndex = max(0, min(i, labels.length-1));  *)
(* and goTo never throws by itself: it ends with an exception only when a  *)
(* callback it invoked threw.                                              *)
(***************************************************************************)
C3_GoToClamps ==
  /\ (Called("goTo") /\ Returned /\ Passive /\ Len(cur.pre.options.labels) > 0)
       => _state.currentIndex =
            Max(0, Min(cur.call.i, Len(cur.pre.options.labels) - 1))
  /\ (Called("goTo") /\ NoCallback) => Returned

C3_Witness ==
  /\ Called("goTo") /\ Returned /\ Passive
  /\ cur.call.i = MaxLen
  /\ Len(cur.pre.options.labels) = MaxLen
  /\ cur.pre.state.currentIndex = 0
  /\ _state.currentIndex = MaxLen - 1

(***************************************************************************)
(* C4.  A goTo(i) whose clamped value equals currentIndex invokes no       *)
(* callback, emits nothing and leaves the whole state as it was.           *)
(***************************************************************************)
C4_GoToSameIndex ==
  (Called("goTo")
   /\ Clamped(cur.call.i, cur.pre.options.labels) = cur.pre.state.currentIndex)
  => /\ Returned
     /\ Len(log) = 1
     /\ Pre = cur.pre

C4_Witness ==
  /\ Called("goTo") /\ Returned
  /\ cur.call.i = cur.pre.state.currentIndex
  /\ cur.call.i = 1
  /\ _options.onChange
  /\ _eventHandlers["change"] # <<>>
  /\ Len(log) = 1

(***************************************************************************)
(* C5.  Every goTo call that changes the index, made from outside or from  *)
(* a callback, notifies in this order: onChange(newIndex, labels[newIndex])*)
(* if configured, then change, then statechange; the index is committed    *)
(* before the first of them, so the callback reads the new index.  A       *)
(* callback that throws cuts the sequence short.                           *)
(***************************************************************************)
C5_GoToOrder ==
  Ended =>
    \A p \in CallsOf("goTo") :
      LET k == Clamped(log[p].i, log[p].labels)
          ns == Notified(p)
          expected == (IF _options.onChange THEN <<"onChange">> ELSE <<>>)
                      \o <<"change", "statechange">>
      IN k # log[p].now.currentIndex =>
           /\ IsPrefix(Tags(ns), expected)
           /\ Returned => Tags(ns) = expected
           /\ ns # <<>> => ns[1].now.currentIndex = k
           /\ (ns # <<>> /\ ns[1].t = "onChange") =>
                (ns[1].i = k /\ ns[1].l = At(log[p].labels, k))

C5_Witness ==
  /\ Called("goTo") /\ Returned /\ cur.re = 1
  /\ _options.onChange
  /\ \E p \in CallsOf("goTo") : log[p].d = 1 /\ log[p].now.currentIndex # 0
  /\ cur.pre.state.currentIndex = 0
  /\ cur.call.i = 2
  /\ Tags(Notified(1)) = <<"onChange", "change", "statechange">>

(***************************************************************************)
(* The control over its life on a map: SpecLife adds onAdd to the          *)
(* operations of Spec and constructs with no labels or MaxLen labels at    *)
(* index 0.                                                                *)
(***************************************************************************)
LifeOptionChoices ==
  [collapsed : {DEFAULT_OPTIONS.collapsed}, labels : {<<>>, Prefix(MaxLen)},
   initialIndex : {DEFAULT_OPTIONS.initialIndex}, speed : {DEFAULT_OPTIONS.speed},
   loop : BOOLEAN, onChange : BOOLEAN]

InitLife ==
  \E o \in LifeOptionChoices, hs \in RegisteredUpTo(1, PlaybackEvents) :
    LET m == constructor(o)
    IN /\ _options = m.options
       /\ _state = m.state
       /\ _playbackInterval = m.interval
       /\ timers = m.timers
       /\ _eventHandlers = hs
       /\ _map = m.map
       /\ log = <<>>
       /\ held = NothingHeld
       /\ cur = [IdleCur EXCEPT !.status = "new",
                             !.call = Call("constructor", o.initialIndex, o.labels, FALSE, "")]

NextLife ==
  \/ OnAdd \/ OnRemove
  \/ Play \/ Pause \/ TogglePlayback \/ SetSpeed \/ SetLabels
  \/ GoTo \/ NextLabel \/ PrevLabel
  \/ Tick
  \/ Return

SpecLife == InitLife /\ [][NextLife]_vars

(***************************************************************************)
(* "Has the effect of": from the same state, with user code behaving the   *)
(* same way, two calls leave the same state, make the same notifications   *)
(* with the same re-entrant calls, and end the same way.  Outcomes(c) is   *)
(* everything call c can do from the current state, the record of the call *)
(* itself left out.                                                        *)
(***************************************************************************)
Outcomes(c) == {[m EXCEPT !.log = Tail(@)] : m \in Exec(Enter(M, c))}
Between == cur.status \in {"new", "idle"}
ChangedNothing == Returned /\ Len(log) = 1 /\ Pre = cur.pre
GoToCall(i) == Call("goTo", i, <<>>, FALSE, "")

(***************************************************************************)
(* C6.  next(): below the last index it has the effect of                  *)
(* goTo(currentIndex+1); at the last index it has the effect of goTo(0)    *)
(* when loop is true, and changes and emits nothing when loop is false.    *)
(* Stated twice: between two calls, as the equality of what the two calls  *)
(* can do from there; after a call of next(), as the index it left.        *)
(***************************************************************************)
C6_Next ==
  /\ Between =>
       LET i == _state.currentIndex
           last == Len(_options.labels) - 1
       IN /\ i < last => Outcomes(Call0("next")) = Outcomes(GoToCall(i + 1))
          /\ (i = last /\ _state.loop) => Outcomes(Call0("next")) = Outcomes(GoToCall(0))
          /\ (i = last /\ ~_state.loop) => Outcomes(Call0("next")) = {M}
  /\ Called("next") =>
       LET i == cur.pre.state.currentIndex
           last == Len(cur.pre.options.labels) - 1
       IN /\ (i < last /\ Returned /\ Passive) => _state.currentIndex = Max(0, i + 1)
          /\ (i = last /\ cur.pre.state.loop /\ Returned /\ Passive) => _state.currentIndex = 0
          /\ (i = last /\ ~cur.pre.state.loop) => ChangedNothing

\* labels a,b,c at index 2 with loop: next() moves to 0
C6_Witness ==
  /\ Called("next") /\ Returned /\ Passive
  /\ cur.pre.options.labels = <<"a", "b", "c">>
  /\ cur.pre.state.currentIndex = 2
  /\ cur.pre.state.loop
  /\ _state.currentIndex = 0
  /\ Tags(Notified(1)) = <<"change", "statechange">>

(***************************************************************************)
(* C7.  prev(): above index 0 it has the effect of goTo(currentIndex-1);   *)
(* at index 0 it has the effect of goTo(labels.length-1) when loop is      *)
(* true, and changes and emits nothing when loop is false.                 *)
(***************************************************************************)
C7_Prev ==
  /\ Between =>
       LET i == _state.currentIndex
           last == Len(_options.labels) - 1
       IN /\ i > 0 => Outcomes(Call0("prev")) = Outcomes(GoToCall(i - 1))
          /\ (i = 0 /\ _state.loop) => Outcomes(Call0("prev")) = Outcomes(GoToCall(last))
          /\ (i = 0 /\ ~_state.loop) => Outcomes(Call0("prev")) = {M}
  /\ Called("prev") =>
       LET i == cur.pre.state.currentIndex
           last == Len(cur.pre.options.labels) - 1
       IN /\ (i > 0 /\ Returned /\ Passive) => _state.currentIndex = Min(i - 1, Max(0, last))
          /\ (i = 0 /\ cur.pre.state.loop /\ Returned /\ Passive) => _state.currentIndex = Max(0, last)
          /\ (i = 0 /\ ~cur.pre.state.loop) => ChangedNothing

C7_Witness ==
  /\ Called("prev") /\ Returned /\ Passive
  /\ cur.pre.options.labels = <<"a", "b", "c">>
  /\ cur.pre.state.currentIndex = 0
  /\ cur.pre.state.loop
  /\ _state.currentIndex = 2
  /\ Tags(Notified(1)) = <<"change", "statechange">>

(***************************************************************************)
(* C8.  play() changes nothing, emits nothing and starts no timer when     *)
(* isPlaying is already true or there are no labels.  Otherwise it sets    *)
(* isPlaying, starts one interval whose period is the current speed and    *)
(* emits play and then statechange; the state is committed before the      *)
(* first emission, and unless user code called back into the control the   *)
(* call leaves currentIndex and everything else as it was.                 *)
(***************************************************************************)
C8_Play ==
  Called("play") =>
    IF cur.pre.state.isPlaying \/ Len(cur.pre.options.labels) = 0
    THEN ChangedNothing
    ELSE LET ns == Notified(1)
         IN /\ IsPrefix(Tags(ns), <<"play", "statechange">>)
            /\ ns # <<>>
            /\ Returned => Tags(ns) = <<"play", "statechange">>
            /\ ns[1].now = [cur.pre.state EXCEPT !.isPlaying = TRUE]
            /\ ns[1].timers = Cardinality(cur.pre.timers) + 1
            /\ Passive =>
                 /\ _state = [cur.pre.state EXCEPT !.isPlaying = TRUE]
                 /\ _playbackInterval # 0
                 /\ \A t \in cur.pre.timers : t.id # _playbackInterval
                 /\ timers = cur.pre.timers
                      \cup {[id |-> _playbackInterval, ms |-> cur.pre.state.speed]}
                 /\ _options = cur.pre.options
                 /\ _eventHandlers = cur.pre.handlers
                 /\ _map = cur.pre.map

C8_Witness ==
  /\ Called("play") /\ Returned /\ Passive
  /\ ~cur.pre.state.isPlaying
  /\ cur.pre.state.speed = MinSpeed
  /\ cur.pre.state.currentIndex = 1
  /\ timers = {[id |-> _playbackInterval, ms |-> MinSpeed]}
  /\ _state.isPlaying

(***************************************************************************)
(* C9.  pause() when not playing changes nothing and emits nothing.  When  *)
(* playing it cancels the timer, sets isPlaying = false and emits pause    *)
(* and then statechange; the state is committed before the first emission. *)
(***************************************************************************)
C9_Pause ==
  Called("pause") =>
    IF ~cur.pre.state.isPlaying
    THEN ChangedNothing
    ELSE LET ns == Notified(1)
         IN /\ IsPrefix(Tags(ns), <<"pause", "statechange">>)
            /\ ns # <<>>
            /\ Returned => Tags(ns) = <<"pause", "statechange">>
            /\ ns[1].now = [cur.pre.state EXCEPT !.isPlaying = FALSE]
            /\ ns[1].timers = Cardinality(cur.pre.timers) - 1
            /\ Passive =>
                 /\ _state = [cur.pre.state EXCEPT !.isPlaying = FALSE]
                 /\ _playbackInterval = 0
                 /\ timers = {t \in cur.pre.timers : t.id # cur.pre.interval}
                 /\ timers # cur.pre.timers
                 /\ _options = cur.pre.options
                 /\ _eventHandlers = cur.pre.handlers
                 /\ _map = cur.pre.map

C9_Witness ==
  /\ Called("pause") /\ Returned /\ Passive
  /\ cur.pre.state.isPlaying
  /\ cur.pre.timers # {}
  /\ timers = {}
  /\ ~_state.isPlaying

\* a second consecutive pause
C9_WitnessTwice ==
  /\ Called("pause") /\ Returned
  /\ ~cur.pre.state.isPlaying
  /\ Len(log) = 1

(***************************************************************************)
(* C10.  At most one playback timer is active for a control instance: in   *)
(* every state between two calls, and at every moment of a call at which   *)
(* an operation is entered, an event is emitted or user code is called     *)
(* (user code that may call back into the control), whatever the order of  *)
(* play, pause, togglePlayback, setSpeed, setLabels, goTo, next, prev,     *)
(* ticks, onAdd and onRemove.                                              *)
(***************************************************************************)
C10_OneTimer ==
  /\ Cardinality(timers) <= 1
  /\ \A q \in DOMAIN log : log[q].timers <= 1

\* setSpeed restarting playback while a pause handler calls play(): the
\* handler's timer is the one that stays
C10_Witness ==
  /\ Called("setSpeed") /\ Returned
  /\ cur.pre.state.isPlaying
  /\ cur.re = 1
  /\ \E q \in DOMAIN log : log[q].t = "call" /\ log[q].d > 0 /\ log[q].who = "play"
  /\ Cardinality(timers) = 1
  /\ _state.isPlaying
  /\ _map

(***************************************************************************)
(* C11.  A tick does what next() does from the same state, and where       *)
(* next() does nothing (currentIndex at or beyond the last index, or no    *)
(* labels, with loop false) the tick does what pause() does: the timer is  *)
(* cancelled, isPlaying is false, pause then statechange are emitted and   *)
(* currentIndex is unchanged.                                              *)
(***************************************************************************)
TickCall(id) == Call("tick", id, <<>>, FALSE, "")

Quiet(S) == {m \in S : m.re = 0}
\* the same runs, found without trying the calls back: with no call left
\* to make, user code returns or throws
ExecQuiet(m) == {[x EXCEPT !.re = m.re] : x \in Exec([m EXCEPT !.re = MaxReentrant])}

InitPlayback == Init /\ ~_state.loop /\ Len(_options.labels) > 0

StartPlayback ==
  /\ cur.status = "new"
  /\ \E m \in Quiet(Exec(Enter(M, Call0("play")))) :
       /\ _options' = m.options
       /\ _state' = m.state
       /\ _playbackInterval' = m.interval
       /\ timers' = m.timers
       /\ _eventHandlers' = m.handlers
       /\ _map' = m.map
       /\ log' = m.log
       /\ held' = held
       /\ cur' = [re |-> m.re, status |-> IF m.threw THEN "threw" ELSE "done",
                  call |-> Call0("play"), pre |-> Pre]

DeliverTick ==
  /\ cur.status \in {"done", "threw"}
  /\ \E t \in timers :
       \E m \in Quiet(Exec(Enter([M EXCEPT !.log = log], TickCall(t.id)))) :
         /\ _options' = m.options
         /\ _state' = m.state
         /\ _playbackInterval' = m.interval
         /\ timers' = m.timers
         /\ _eventHandlers' = m.handlers
         /\ _map' = m.map
         /\ log' = m.log
         /\ held' = held
         /\ cur' = [cur EXCEPT !.status = IF m.threw THEN "threw" ELSE "done",
                               !.call = TickCall(t.id)]

NextPlayback == StartPlayback \/ DeliverTick

SpecPlayback == InitPlayback /\ [][NextPlayback]_vars /\ WF_vars(DeliverTick)

(***************************************************************************)
(* C12.  With loop = false and labels, after play() and with nothing but   *)
(* ticks, playback has stopped only with no timer left, currentIndex =     *)
(* labels.length-1 and exactly one pause emitted; started at index 1 of 3  *)
(* labels, that is after exactly two ticks.                                *)
(***************************************************************************)
PauseCount == Cardinality({q \in DOMAIN log : log[q].t = "emit" /\ log[q].ev = "pause"})
TickCount == Cardinality(CallsOf("tick"))
Stopped == cur.status # "new" /\ ~_state.isPlaying

C12_PlaybackEnds ==
  Stopped =>
    /\ timers = {}
    /\ _state.currentIndex = Len(_options.labels) - 1
    /\ PauseCount = 1
    /\ (cur.pre.state.currentIndex = 1 /\ Len(_options.labels) = 3) => TickCount = 2

\* what does hold: while playback runs a tick can be delivered, and every
\* tick either moves currentIndex up or stops playback, so playback stops
C12_TickEnabled == (cur.status # "new" /\ _state.isPlaying) => timers # {}
C12_TickProgress ==
  [][DeliverTick => (_state'.currentIndex > _state.currentIndex \/ ~_state'.isPlaying)]_vars

\* and from an index in range it stops at the last index
C12_EndsInRange ==
  (Stopped /\ InRange(cur.pre.state.currentIndex, cur.pre.options.labels)) =>
    /\ timers = {}
    /\ _state.currentIndex = Len(_options.labels) - 1
    /\ PauseCount = 1
    /\ (cur.pre.state.currentIndex = 1 /\ Len(_options.labels) = 3) => TickCount = 2

(***************************************************************************)
(* C13.  setSpeed(ms) sets the speed to max(100, ms) before it notifies    *)
(* anyone, and emits statechange: the last thing a setSpeed that returns   *)
(* did is emit statechange, whose snapshot carries the new speed.          *)
(***************************************************************************)
C13_SetSpeedFloor ==
  Called("setSpeed") =>
    LET ns == Notified(1)
    IN /\ _state.speed = Max(100, cur.call.i)
       /\ \A q \in 2..Len(log) : log[q].now.speed = Max(100, cur.call.i)
       /\ ns # <<>>
       /\ ~cur.pre.state.isPlaying => IsPrefix(Tags(ns), <<"statechange">>)
       /\ Returned => /\ Tag(ns[Len(ns)]) = "statechange"
                      /\ ns[Len(ns)].snap.speed = Max(100, cur.call.i)

C13_Witness ==
  /\ Called("setSpeed") /\ Returned
  /\ cur.call.i = 10
  /\ cur.pre.state.speed = 1000
  /\ _state.speed = 100
  /\ Tags(Notified(1)) = <<"statechange">>

(***************************************************************************)
(* Playback speed: SpecSpeed constructs with a speed option below, at and  *)
(* above the floor of setSpeed, and calls the playback operations.         *)
(***************************************************************************)
SpeedOptionChoices ==
  [collapsed : {DEFAULT_OPTIONS.collapsed}, labels : {<<>>, Prefix(MaxLen)},
   initialIndex : {DEFAULT_OPTIONS.initialIndex},
   speed : {s \in SpeedChoices : s > 0}, loop : BOOLEAN, onChange : BOOLEAN]

InitSpeed ==
  \E o \in SpeedOptionChoices, hs \in RegisteredUpTo(1, PlaybackEvents) :
    LET m == constructor(o)
    IN /\ _options = m.options
       /\ _state = m.state
       /\ _playbackInterval = m.interval
       /\ timers = m.timers
       /\ _eventHandlers = hs
       /\ _map = m.map
       /\ log = <<>>
       /\ held = NothingHeld
       /\ cur = [IdleCur EXCEPT !.status = "new",
                             !.call = Call("constructor", o.speed, o.labels, FALSE, "")]

NextSpeed ==
  \/ Play \/ Pause \/ TogglePlayback \/ SetSpeed
  \/ Tick
  \/ Return

SpecSpeed == InitSpeed /\ [][NextSpeed]_vars

(***************************************************************************)
(* C14.  From construction with any positive speed option on, the speed is *)
(* at least 100, and so is the interval of every timer play() started.     *)
(***************************************************************************)
C14_SpeedAtLeastFloor ==
  /\ _state.speed >= 100
  /\ \A t \in timers : t.ms >= 100

\* what does hold: a speed below 100 is the constructor's; setSpeed never
\* leaves one
C14_FloorAfterSetSpeed ==
  /\ Called("setSpeed") => _state.speed >= 100
  /\ (Ended /\ _state.speed < 100) => _state.speed = cur.pre.state.speed

(***************************************************************************)
(* C15.  setSpeed(ms) called while playing over a non-empty label sequence *)
(* (user code calling nothing back) leaves isPlaying = true with exactly   *)
(* one timer, whose interval is max(100, ms); the previous timer is        *)
(* cancelled first, so that no timer is active when pause is emitted; and  *)
(* currentIndex is unchanged.                                              *)
(***************************************************************************)
Restarted ==
  /\ _state.isPlaying
  /\ timers = {[id |-> _playbackInterval, ms |-> Max(100, cur.call.i)]}
  /\ _playbackInterval # 0
  /\ _state.currentIndex = cur.pre.state.currentIndex

C16_SetLoopFrame ==
  Called("setLoop") =>
    LET ns == Notified(1)
        after == [cur.pre.state EXCEPT !.loop = cur.call.b]
    IN /\ Tags(ns) = <<"statechange">>
       /\ ns[1].now = after
       /\ ns[1].snap = after
       /\ ns[1].timers = Cardinality(cur.pre.timers)
       /\ Passive => Pre = [cur.pre EXCEPT !.state = after]

C16_Witness ==
  /\ Called("setLoop") /\ Returned /\ Passive
  /\ cur.call.b = FALSE
  /\ cur.pre.state.loop
  /\ cur.pre.state.isPlaying
  /\ cur.pre.state.currentIndex = 1
  /\ ~_state.loop
  /\ _state.isPlaying
  /\ timers = cur.pre.timers /\ timers # {}
  /\ _options.onChange
  /\ _eventHandlers["change"] # <<>>

(***************************************************************************)
(* C17.  After setLabels(newLabels, resetIndex) the labels are newLabels,  *)
(* and currentIndex is 0 if resetIndex is true or the previous             *)
(* currentIndex is out of bounds for newLabels, and unchanged otherwise    *)
(* (user code calling nothing back).                                       *)
(***************************************************************************)
IndexAfterSetLabels ==
  IF cur.call.b \/ ~InRange(cur.pre.state.currentIndex, cur.call.ls)
  THEN 0 ELSE cur.pre.state.currentIndex

C17_SetLabels ==
  (Called("setLabels") /\ Passive) =>
    /\ _options.labels = cur.call.ls
    /\ _state.currentIndex = IndexAfterSetLabels
    /\ \A q \in 2..Len(log) :
         log[q].labels = cur.call.ls /\ log[q].now.currentIndex = IndexAfterSetLabels

\* what does hold: the same from a currentIndex that is not negative
C17_SetLabelsFromNonNegative ==
  (Called("setLabels") /\ Passive /\ cur.pre.state.currentIndex >= 0) =>
    /\ _options.labels = cur.call.ls
    /\ _state.currentIndex = IndexAfterSetLabels
    /\ \A q \in 2..Len(log) :
         log[q].labels = cur.call.ls /\ log[q].now.currentIndex = IndexAfterSetLabels

C19_EmptyLabelsNoOps ==
  (/\ Ended
   /\ cur.call.op \in {"goTo", "next", "prev", "play", "togglePlayback"}
   /\ cur.pre.options.labels = <<>>) => ChangedNothing

\* what does hold: the same at currentIndex 0, for togglePlayback when
\* playback is not running
C19_EmptyLabelsAtZero ==
  (/\ Ended
   /\ cur.call.op \in {"goTo", "next", "prev", "play", "togglePlayback"}
   /\ cur.pre.options.labels = <<>>
   /\ cur.pre.state.currentIndex = 0
   /\ cur.call.op = "togglePlayback" => ~cur.pre.state.isPlaying) => ChangedNothing

(***************************************************************************)
(* The panel: SpecPanel constructs collapsed or expanded, with a handler   *)
(* for a panel event or none, and calls toggle, expand and collapse on a   *)
(* control that onAdd attaches and onRemove detaches.                      *)
(***************************************************************************)
PanelEvents == {"collapse", "expand", "statechange"}

PanelOptionChoices ==
  [collapsed : BOOLEAN, labels : {<<>>, Prefix(MaxLen)},
   initialIndex : {DEFAULT_OPTIONS.initialIndex}, speed : {DEFAULT_OPTIONS.speed},
   loop : {DEFAULT_OPTIONS.loop}, onChange : BOOLEAN]

InitPanel ==
  \E o \in PanelOptionChoices, hs \in RegisteredUpTo(1, PanelEvents) :
    LET m == constructor(o)
    IN /\ _options = m.options
       /\ _state = m.state
       /\ _playbackInterval = m.interval
       /\ timers = m.timers
       /\ _eventHandlers = hs
       /\ _map = m.map
       /\ log = <<>>
       /\ held = NothingHeld
       /\ cur = [IdleCur EXCEPT !.status = "new",
                             !.call = Call("constructor", o.initialIndex, o.labels, o.collapsed, "")]

Toggle == Invoke(Call0("toggle"))
Expand == Invoke(Call0("expand"))
Collapse == Invoke(Call0("collapse"))

NextPanel ==
  \/ Toggle \/ Expand \/ Collapse
  \/ OnAdd \/ OnRemove
  \/ Return

SpecPanel == InitPanel /\ [][NextPanel]_vars

(***************************************************************************)
(* C20.  Every collapse() or toggle() that takes collapsed from false to   *)
(* true emits collapse and then statechange, and every expand() or         *)
(* toggle() that takes collapsed from true to false emits expand and then  *)
(* statechange, attached to a map or not.                                  *)
(***************************************************************************)
PanelEventsOf(first) ==
  LET ns == Notified(1)
  IN /\ IsPrefix(Tags(ns), <<first, "statechange">>)
     /\ ns # <<>>
     /\ Returned => Tags(ns) = <<first, "statechange">>

C20_PanelEvents ==
  /\ (Ended /\ cur.call.op \in {"collapse", "toggle"} /\ ~cur.pre.state.collapsed)
       => PanelEventsOf("collapse")
  /\ (Ended /\ cur.call.op \in {"expand", "toggle"} /\ cur.pre.state.collapsed)
       => PanelEventsOf("expand")

\* what does hold: the same on a control attached to a map
C20_PanelEventsAttached ==
  /\ (Ended /\ cur.call.op \in {"collapse", "toggle"} /\ ~cur.pre.state.collapsed
      /\ cur.pre.map) => PanelEventsOf("collapse")
  /\ (Ended /\ cur.call.op \in {"expand", "toggle"} /\ cur.pre.state.collapsed
      /\ cur.pre.map) => PanelEventsOf("expand")

(***************************************************************************)
(* Every public operation with user code that calls nothing back:          *)
(* SpecState constructs collapsed with no labels or MaxLen labels and a    *)
(* handler for any one event or none, and calls every public operation of  *)
(* the control; onChange and the handlers return or throw.                 *)
(***************************************************************************)
PublicCalls ==
  {Call("goTo", i, <<>>, FALSE, "") : i \in IndexChoices}
  \cup {Call0(op) : op \in {"next", "prev", "play", "pause", "togglePlayback",
                            "toggle", "expand", "collapse", "onAdd", "onRemove"}}
  \cup {Call("setSpeed", sp, <<>>, FALSE, "") : sp \in SpeedChoices}
  \cup {Call("setLoop", 0, <<>>, b, "") : b \in BOOLEAN}
  \cup {Call("setLabels", 0, ls, b, "") : ls \in LabelChoices, b \in BOOLEAN}

\* a call from outside after which the caller holds the objects h
InvokeQuietHolding(c, h) ==
  /\ cur.status \in {"new", "idle"}
  /\ \E m \in ExecQuiet(Enter(M, c)) :
       /\ _options' = m.options
       /\ _state' = m.state
       /\ _playbackInterval' = m.interval
       /\ timers' = m.timers
       /\ _eventHandlers' = m.handlers
       /\ _map' = m.map
       /\ log' = m.log
       /\ held' = h
       /\ cur' = [re |-> m.re, status |-> IF m.threw THEN "threw" ELSE "done",
                  call |-> c, pre |-> Pre]

InvokeQuiet(c) == InvokeQuietHolding(c, held)

StateOptionChoices ==
  [collapsed : {DEFAULT_OPTIONS.collapsed}, labels : {<<>>, Prefix(MaxLen)},
   initialIndex : {DEFAULT_OPTIONS.initialIndex}, speed : {DEFAULT_OPTIONS.speed},
   loop : {DEFAULT_OPTIONS.loop}, onChange : BOOLEAN]

InitState ==
  \E o \in StateOptionChoices, hs \in RegisteredUpTo(1, TimeSliderEvent) :
    LET m == constructor(o)
    IN /\ _options = m.options
       /\ _state = m.state
       /\ _playbackInterval = m.interval
       /\ timers = m.timers
       /\ _eventHandlers = hs
       /\ _map = m.map
       /\ log = <<>>
       /\ held = NothingHeld
       /\ cur = [IdleCur EXCEPT !.status = "new",
                             !.call = Call("constructor", o.initialIndex, o.labels, FALSE, "")]

CallPublic == \E c \in PublicCalls : InvokeQuiet(c)
QuietTick == \E t \in timers : InvokeQuiet(TickCall(t.id))

NextState == CallPublic \/ QuietTick \/ Return

SpecState == InitState /\ [][NextState]_vars

(***************************************************************************)
(* C21.  Every public operation that returns having changed a field of the *)
(* runtime state has emitted statechange at least once, and the last       *)
(* statechange it emitted carries a snapshot equal to the state it leaves  *)
(* (user code calling nothing back).                                       *)
(***************************************************************************)
StateChanges == {q \in DOMAIN log : log[q].t = "emit" /\ log[q].ev = "statechange"}
LastStateChange == log[CHOOSE q \in StateChanges : \A r \in StateChanges : r <= q]

C21_StateChangeOnMutation ==
  (/\ Returned
   /\ cur.call \in PublicCalls
   /\ _state # cur.pre.state) =>
     /\ StateChanges # {}
     /\ LastStateChange.snap = _state

\* setSpeed while playing: the statechange of the pause carries a state the
\* one that ends the call no longer does
C21_Witness ==
  /\ Called("setSpeed") /\ Returned
  /\ cur.pre.state.isPlaying
  /\ _state # cur.pre.state
  /\ Cardinality(StateChanges) = 3
  /\ LastStateChange.snap = _state
  /\ \E q \in StateChanges : log[q].snap # _state

\* the first half alone, which user code calling back cannot break
C21_StateChangeEmitted ==
  (Returned /\ _state # cur.pre.state) => StateChanges # {}

(***************************************************************************)
(* The event bus: SpecBus constructs over MaxLen labels with no handler,   *)
(* registers and removes the two handlers for three of the events in any   *)
(* order, and lets goTo, play and pause emit; the handlers return or       *)
(* throw.                                                                  *)
(***************************************************************************)
BusEvents == {"change", "play", "statechange"}
EmittingCalls ==
  {Call("goTo", i, <<>>, FALSE, "") : i \in IndexChoices}
  \cup {Call0("play"), Call0("pause")}

InitBus ==
  LET o == [DEFAULT_OPTIONS EXCEPT !.labels = Prefix(MaxLen)]
      m == constructor(o)
  IN /\ _options = m.options
     /\ _state = m.state
     /\ _playbackInterval = m.interval
     /\ timers = m.timers
     /\ _eventHandlers = m.handlers
     /\ _map = m.map
     /\ log = <<>>
     /\ held = NothingHeld
     /\ cur = [IdleCur EXCEPT !.status = "new",
                           !.call = Call("constructor", o.initialIndex, o.labels, FALSE, "")]

On == \E e \in BusEvents, h \in Handlers : InvokeQuiet(Call("on", 0, h, FALSE, e))
Off == \E e \in BusEvents, h \in Handlers : InvokeQuiet(Call("off", 0, h, FALSE, e))
Emitting == \E c \in EmittingCalls : InvokeQuiet(c)

NextBus == On \/ Off \/ Emitting \/ Return

SpecBus == InitBus /\ [][NextBus]_vars

(***************************************************************************)
(* C22.  A handler is registered for an event at most once however often   *)
(* on() is called with it, and on() for a registered handler changes       *)
(* nothing; every emission of an operation that returns invokes each       *)
(* handler registered for its event exactly once, with that event as the   *)
(* payload type, and no other handler; off(event, handler) leaves the      *)
(* handler unregistered and the other registrations as they were, and      *)
(* off() for a handler that is not registered changes nothing.             *)
(***************************************************************************)
Has(hs, e, h) == \E i \in 1..Len(hs[e]) : hs[e][i] = h
Times(hs, e, h) == Cardinality({i \in 1..Len(hs[e]) : hs[e][i] = h})
\* the handler invocations of the emission logged at q
Invoked(q) ==
  {r \in (q + 1)..Len(log) :
     /\ log[r].t = "handler"
     /\ \A x \in (q + 1)..r : log[x].t # "emit"}

C22_OnOff ==
  /\ \A e \in TimeSliderEvent, h \in Handlers : Times(_eventHandlers, e, h) <= 1
  /\ Returned =>
       \A q \in DOMAIN log : log[q].t = "emit" =>
         /\ \A r \in Invoked(q) : log[r].ev = log[q].ev
         /\ \A h \in Handlers :
              Cardinality({r \in Invoked(q) : log[r].who = h})
                = Times(cur.pre.handlers, log[q].ev, h)
  /\ Called("on") =>
       /\ Returned
       /\ Has(_eventHandlers, cur.call.ev, cur.call.ls)
       /\ Has(cur.pre.handlers, cur.call.ev, cur.call.ls) => Pre = cur.pre
  /\ Called("off") =>
       /\ Returned
       /\ ~Has(_eventHandlers, cur.call.ev, cur.call.ls)
       /\ \A e \in TimeSliderEvent, h \in Handlers :
            (e # cur.call.ev \/ h # cur.call.ls) =>
              (Has(_eventHandlers, e, h) <=> Has(cur.pre.handlers, e, h))
       /\ ~Has(cur.pre.handlers, cur.call.ev, cur.call.ls) => Pre = cur.pre

\* an emission with both handlers registered for its event
C22_Witness ==
  /\ Called("goTo") /\ Returned
  /\ Len(cur.pre.handlers["change"]) = 2
  /\ \E q \in DOMAIN log :
       /\ log[q].t = "emit" /\ log[q].ev = "change"
       /\ Cardinality(Invoked(q)) = 2

\* on() for a handler that is registered already
C22_WitnessOnAgain ==
  /\ Called("on") /\ Returned
  /\ Has(cur.pre.handlers, cur.call.ev, cur.call.ls)

\* off() removing a registered handler, and off() for one that is not
C22_WitnessOff ==
  /\ Called("off") /\ Returned
  /\ Has(cur.pre.handlers, cur.call.ev, cur.call.ls)
  /\ Len(cur.pre.handlers[cur.call.ev]) = 2

C22_WitnessOffUnregistered ==
  /\ Called("off") /\ Returned
  /\ ~Has(cur.pre.handlers, cur.call.ev, cur.call.ls)
  /\ Len(cur.pre.handlers[cur.call.ev]) = 1

(***************************************************************************)
(* C23.  onAdd invokes onChange exactly once, with currentIndex and        *)
(* labels[currentIndex], when the labels are non-empty and onChange is     *)
(* configured, and not at all otherwise; it emits no event and leaves      *)
(* currentIndex, isPlaying, speed, loop and collapsed as they were.        *)
(***************************************************************************)
OnChanges == {q \in DOMAIN log : log[q].t = "onChange"}

C23_OnAdd ==
  Called("onAdd") =>
    /\ IF Len(cur.pre.options.labels) > 0 /\ cur.pre.options.onChange
       THEN /\ Len(log) = 2
            /\ OnChanges = {2}
            /\ log[2].i = cur.pre.state.currentIndex
            /\ log[2].l = At(cur.pre.options.labels, cur.pre.state.currentIndex)
       ELSE Len(log) = 1 /\ Returned
    /\ _state = cur.pre.state

\* onAdd away from the first label, playing
C23_Witness ==
  /\ Called("onAdd") /\ Returned
  /\ OnChanges = {2}
  /\ log[2].i = MaxLen - 1
  /\ log[2].l = Alphabet[MaxLen]
  /\ _state.isPlaying

\* onAdd with onChange configured and no label
C23_WitnessEmpty ==
  /\ Called("onAdd") /\ Returned
  /\ cur.pre.options.onChange
  /\ cur.pre.options.labels = <<>>
  /\ OnChanges = {}

(***************************************************************************)
(* C24.  onRemove on a control that is not attached throws nothing,        *)
(* changes no runtime state, emits no event and leaves the handler         *)
(* registrations as they were.                                             *)
(***************************************************************************)
C24_DetachedRemoveNoOp ==
  (Called("onRemove") /\ ~cur.pre.map) => ChangedNothing

\* what holds: with playback paused and no handler registered, as straight
\* after a removal, onRemove changes and emits nothing
C24_RemoveAfterRemove ==
  (/\ Called("onRemove")
   /\ ~cur.pre.map
   /\ ~cur.pre.state.isPlaying
   /\ Registrations(cur.pre.handlers) = 0) => ChangedNothing

(***************************************************************************)
(* C25.  When onRemove returns, isPlaying is false and no playback timer   *)
(* is active, whatever the registered handlers did during the removal.     *)
(***************************************************************************)
C25_RemovedIsStopped ==
  (Called("onRemove") /\ Returned) => (~_state.isPlaying /\ timers = {})

\* what holds: a removal during which user code called nothing back
C25_RemovedIsStoppedPassive ==
  (Called("onRemove") /\ Returned /\ Passive) =>
    (~_state.isPlaying /\ timers = {} /\ _playbackInterval = 0)

(***************************************************************************)
(* onRemove statement by statement.  SpecTeardown attaches, plays and      *)
(* removes; a removal in progress keeps its position in cur.status:        *)
(* "paused" after pause(), "listeners" after the window, map and document  *)
(* listeners are removed, "elements" after the panel and the container     *)
(* are taken out of the document, "references" after _map, _mapContainer,  *)
(* _container and _panel are set to undefined, and "done" after            *)
(* _eventHandlers.clear().  The handlers return or throw.                  *)
(***************************************************************************)
Attach == InvokeQuiet(Call0("onAdd"))
StartPlay == InvokeQuiet(Call0("play"))

RemovePause ==
  /\ cur.status \in {"new", "idle"}
  /\ \E m \in ExecQuiet(Apply(Logged(M, Entry(M, "call", "onRemove", "", 0, "",
                                               getState(M))),
                               Call0("pause"))) :
       /\ _options' = m.options
       /\ _state' = m.state
       /\ _playbackInterval' = m.interval
       /\ timers' = m.timers
       /\ _eventHandlers' = m.handlers
       /\ _map' = m.map
       /\ log' = m.log
       /\ held' = held
       /\ cur' = [re |-> m.re, status |-> IF m.threw THEN "threw" ELSE "paused",
                  call |-> Call0("onRemove"), pre |-> Pre]

RemoveListeners ==
  /\ cur.status = "paused"
  /\ cur' = [cur EXCEPT !.status = "listeners"]
  /\ UNCHANGED <<held, _options, _state, _playbackInterval, timers, _eventHandlers, _map, log>>

DetachElements ==
  /\ cur.status = "listeners"
  /\ cur' = [cur EXCEPT !.status = "elements"]
  /\ UNCHANGED <<held, _options, _state, _playbackInterval, timers, _eventHandlers, _map, log>>

ClearReferences ==
  /\ cur.status = "elements"
  /\ _map' = FALSE
  /\ cur' = [cur EXCEPT !.status = "references"]
  /\ UNCHANGED <<held, _options, _state, _playbackInterval, timers, _eventHandlers, log>>

ClearHandlers ==
  /\ cur.status = "references"
  /\ _eventHandlers' = [e \in TimeSliderEvent |-> <<>>]
  /\ cur' = [cur EXCEPT !.status = "done"]
  /\ UNCHANGED <<held, _options, _state, _playbackInterval, timers, _map, log>>

NextTeardown ==
  \/ Attach \/ StartPlay
  \/ RemovePause \/ RemoveListeners \/ DetachElements \/ ClearReferences \/ ClearHandlers
  \/ Return

SpecTeardown == InitState /\ [][NextTeardown]_vars

Removing == cur.status \in {"paused", "listeners", "elements", "references"}

(***************************************************************************)
(* C26.  onRemove pauses playback, removes the listeners, detaches the     *)
(* elements, clears the handler registrations and only then clears the     *)
(* map reference: while an attached control is being removed, the map      *)
(* reference is not cleared before the registrations are.                  *)
(***************************************************************************)
C26_HandlersBeforeMap ==
  (Removing /\ cur.pre.map /\ ~_map) => Registrations(_eventHandlers) = 0

\* what holds: playback is paused first, the map reference is cleared after
\* the listeners and elements are dealt with, the registrations last
C26_MapBeforeHandlers ==
  /\ Removing => ~_state.isPlaying /\ timers = {}
  /\ (Removing /\ cur.pre.map) =>
       /\ _map <=> cur.status \in {"paused", "listeners", "elements"}
       /\ _eventHandlers = cur.pre.handlers
  /\ (Called("onRemove") /\ Returned) =>
       ~_map /\ Registrations(_eventHandlers) = 0

\* the steps end where the removal taken as one call ends
C26_StepsAreOnRemove ==
  (Called("onRemove") /\ Returned) =>
    \E m \in ExecQuiet(Enter([M EXCEPT !.options = cur.pre.options,
                                      !.state = cur.pre.state,
                                      !.interval = cur.pre.interval,
                                      !.timers = cur.pre.timers,
                                      !.handlers = cur.pre.handlers,
                                      !.map = cur.pre.map], Call0("onRemove"))) :
      /\ ~m.threw
      /\ m.log = log
      /\ [m EXCEPT !.log = <<>>] = M

(***************************************************************************)
(* A control that has been attached: under SpecAttached the first call is  *)
(* onAdd, and every public operation, on() of one more handler and the     *)
(* ticks follow in any order, so that a control without a map is one that  *)
(* was removed.  The handlers return or throw.                             *)
(***************************************************************************)
AttachFirst == cur.status = "new" /\ InvokeQuiet(Call0("onAdd"))
CallAttached == cur.status = "idle" /\ CallPublic
OnLate == cur.status = "idle" /\ InvokeQuiet(Call("on", 0, "h1", FALSE, "change"))
TickAttached == cur.status = "idle" /\ QuietTick

NextAttached == AttachFirst \/ CallAttached \/ OnLate \/ TickAttached \/ Return

SpecAttached == InitState /\ [][NextAttached]_vars

(***************************************************************************)
(* C27.  Once onRemove has cleared the map reference, no operation other   *)
(* than a new onAdd invokes onChange or an event handler.                  *)
(***************************************************************************)
C27_RemovedIsSilent ==
  (Ended /\ ~cur.pre.map /\ cur.call.op # "onAdd") => NoCallback

\* what holds: the handlers registered before the removal are gone, so a
\* removed control with no onChange invokes nothing until on() is called
C27_RemovedHandlersSilent ==
  /\ (Called("onRemove") /\ Returned) => Registrations(_eventHandlers) = 0
  /\ (/\ Ended /\ ~cur.pre.map /\ cur.call.op # "onAdd"
      /\ ~cur.pre.options.onChange
      /\ Registrations(cur.pre.handlers) = 0) => NoCallback

(***************************************************************************)
(* Snapshots in the caller's hands.  SpecSnapshot constructs over MaxLen   *)
(* labels with a statechange handler; the caller navigates, plays and      *)
(* pauses, keeps the object getState() returned or the state object of an  *)
(* event payload it was handed, and assigns to the fields of the object    *)
(* it keeps.                                                               *)
(***************************************************************************)
InitSnapshot ==
  LET o == [DEFAULT_OPTIONS EXCEPT !.labels = Prefix(MaxLen)]
      m == constructor(o)
  IN /\ _options = m.options
     /\ _state = m.state
     /\ _playbackInterval = m.interval
     /\ timers = m.timers
     /\ _eventHandlers = on(m, "statechange", "h1").handlers
     /\ _map = m.map
     /\ log = <<>>
     /\ held = NothingHeld
     /\ cur = [IdleCur EXCEPT !.status = "new",
                           !.call = Call("constructor", o.initialIndex, o.labels, FALSE, "")]

\* the content of a held snapshot
Seen(o) == IF o.same THEN _state ELSE o.v

GetState ==
  /\ Between
  /\ held' = [held EXCEPT !.snapshot = <<getStateObject(M)>>]
  /\ UNCHANGED <<_options, _state, _playbackInterval, timers, _eventHandlers, _map, log, cur>>

\* _emit hands every handler { type: event, state: this.getState() }
KeepPayload ==
  /\ Ended
  /\ \E q \in DOMAIN log :
       /\ log[q].t = "handler"
       /\ held' = [held EXCEPT !.snapshot =
                     <<[getStateObject(M) EXCEPT !.v = log[q].snap]>>]
  /\ UNCHANGED <<_options, _state, _playbackInterval, timers, _eventHandlers, _map, log, cur>>

\* snapshot.field = value, in code outside the control
SnapshotWrites(st) ==
  {[st EXCEPT !.currentIndex = 0 - 1], [st EXCEPT !.isPlaying = ~@],
   [st EXCEPT !.speed = 0 - 5], [st EXCEPT !.loop = ~@],
   [st EXCEPT !.collapsed = ~@]}

WriteSnapshot ==
  /\ held.snapshot # <<>>
  /\ \E st \in SnapshotWrites(Seen(held.snapshot[1])) :
       IF held.snapshot[1].same
       THEN _state' = st /\ held' = held
       ELSE _state' = _state /\ held' = [held EXCEPT !.snapshot[1].v = st]
  /\ UNCHANGED <<_options, _playbackInterval, timers, _eventHandlers, _map, log, cur>>

NextSnapshot == Emitting \/ QuietTick \/ GetState \/ KeepPayload \/ WriteSnapshot \/ Return

SpecSnapshot == InitSnapshot /\ [][NextSnapshot]_vars

(***************************************************************************)
(* C28.  Assigning to a field of an object returned by getState(), or of   *)
(* the state object of an event payload, leaves every variable of the      *)
(* control as it was; an operation of the control leaves the content of    *)
(* an object handed out earlier as it was.                                 *)
(***************************************************************************)
C28_SnapshotIsCopy ==
  [][/\ WriteSnapshot => UNCHANGED <<_options, _state, _playbackInterval, timers,
                                     _eventHandlers, _map>>
     /\ (held.snapshot # <<>> /\ (Emitting \/ QuietTick)) =>
          Seen(held.snapshot[1])' = Seen(held.snapshot[1])]_vars

\* a snapshot taken at index 0 and written to, after goTo moved the control
\* to the last label
C28_Witness ==
  /\ Called("goTo") /\ Returned
  /\ held.snapshot # <<>>
  /\ ~held.snapshot[1].same
  /\ held.snapshot[1].v.currentIndex = 0 - 1
  /\ held.snapshot[1].v.isPlaying
  /\ ~_state.isPlaying
  /\ _state.currentIndex = MaxLen - 1
  /\ cur.pre.state.currentIndex = 0

\* the state object of a payload, kept and written to
C28_WitnessPayload ==
  /\ Ended
  /\ held.snapshot # <<>>
  /\ \E q \in DOMAIN log : log[q].t = "handler" /\ held.snapshot[1].v.loop # log[q].snap.loop
  /\ held.snapshot[1].v.currentIndex = _state.currentIndex

(***************************************************************************)
(* Label arrays in the caller's hands.  SpecLabels constructs over MaxLen  *)
(* labels; the caller keeps the array it passed to the constructor or to   *)
(* setLabels, or one that getLabels() returned, pushes to it and pops      *)
(* from it, and navigates.                                                 *)
(***************************************************************************)
InitLabels ==
  LET o == [DEFAULT_OPTIONS EXCEPT !.labels = Prefix(MaxLen)]
      m == constructor(o)
  IN /\ _options = m.options
     /\ _state = m.state
     /\ _playbackInterval = m.interval
     /\ timers = m.timers
     /\ _eventHandlers = m.handlers
     /\ _map = m.map
     /\ log = <<>>
     /\ held = [NothingHeld EXCEPT !.array = <<KeptLabels(o.labels)>>]
     /\ cur = [IdleCur EXCEPT !.status = "new",
                           !.call = Call("constructor", o.initialIndex, o.labels, FALSE, "")]

\* the content of a held array
Content(o) == IF o.same THEN _options.labels ELSE o.v

GetLabels ==
  /\ Between
  /\ held' = [held EXCEPT !.array = <<getLabelsObject(M)>>]
  /\ UNCHANGED <<_options, _state, _playbackInterval, timers, _eventHandlers, _map, log, cur>>

SetLabelsKept ==
  \E ls \in LabelChoices, b \in BOOLEAN :
    InvokeQuietHolding(Call("setLabels", 0, ls, b, ""),
                       [held EXCEPT !.array = <<KeptLabels(ls)>>])

\* array.push("z") and array.pop(), in code outside the control
ArrayWrites(a) ==
  (IF Len(a) <= MaxLen THEN {Append(a, "z")} ELSE {})
  \cup (IF Len(a) > 0 THEN {SubSeq(a, 1, Len(a) - 1)} ELSE {})

MutateArray ==
  /\ held.array # <<>>
  /\ \E a \in ArrayWrites(Content(held.array[1])) :
       IF held.array[1].same
       THEN _options' = [_options EXCEPT !.labels = a] /\ held' = held
       ELSE _options' = _options /\ held' = [held EXCEPT !.array[1].v = a]
  /\ UNCHANGED <<_state, _playbackInterval, timers, _eventHandlers, _map, log, cur>>

Navigate ==
  \E c \in {Call("goTo", i, <<>>, FALSE, "") : i \in IndexChoices}
           \cup {Call0("next"), Call0("prev")} : InvokeQuiet(c)

NextLabels == GetLabels \/ SetLabelsKept \/ MutateArray \/ Navigate \/ Return

SpecLabels == InitLabels /\ [][NextLabels]_vars

(***************************************************************************)
(* C29.  Mutating the array that was passed to the constructor or to       *)
(* setLabels, or an array that getLabels() returned, changes neither what  *)
(* getLabels() and getCurrentLabel() return nor the bounds navigation      *)
(* uses.                                                                   *)
(***************************************************************************)
C29_LabelsOnlyBySetLabels ==
  [][MutateArray => /\ getLabels(M)' = getLabels(M)
                    /\ getCurrentLabel(M)' = getCurrentLabel(M)]_vars

\* what holds: an array returned by getLabels() is the caller's own
C29_GetLabelsIsCopy ==
  [][(MutateArray /\ ~held.array[1].same) =>
       UNCHANGED <<_options, _state, _playbackInterval, timers, _eventHandlers, _map>>]_vars

\* where it leads: navigation past the end of a shortened array
C29_IndexInBounds ==
  Len(_options.labels) > 0 => InRange(_state.currentIndex, _options.labels)

(***************************************************************************)
(* C30.  An exception thrown by onChange or by an event handler ends the   *)
(* operation that invoked it: the callback that threw is the last thing    *)
(* the operation did, what the operation did up to there is what it does   *)
(* when nothing throws, and the state it had reached when it invoked the   *)
(* callback is the state it leaves.                                        *)
(***************************************************************************)
Threw == cur.status = "threw"
\* the runs of the same call from the same state in which nothing throws
Unthrown ==
  {m \in ExecQuiet(Enter([M EXCEPT !.options = cur.pre.options,
                                    !.state = cur.pre.state,
                                    !.interval = cur.pre.interval,
                                    !.timers = cur.pre.timers,
                                    !.handlers = cur.pre.handlers,
                                    !.map = cur.pre.map], cur.call)) : ~m.threw}

C30_ThrowPropagates ==
  Threw =>
    /\ log[Len(log)].t \in {"handler", "onChange"}
    /\ _state = log[Len(log)].now
    /\ _options.labels = log[Len(log)].labels
    /\ Cardinality(timers) = log[Len(log)].timers
    /\ \E m \in Unthrown : IsPrefix(log, m.log)

\* goTo whose onChange throws: the index is moved, and neither change nor
\* statechange is emitted for the handler registered
C30_Witness ==
  /\ Called("goTo") /\ Threw
  /\ Tags(log) = <<"call", "onChange">>
  /\ _state.currentIndex # cur.pre.state.currentIndex
  /\ _state.currentIndex = Clamped(cur.call.i, _options.labels)
  /\ Registrations(_eventHandlers) = 1
  /\ \E m \in Unthrown : Len(m.log) > Len(log) + 1

\* a tick whose handler throws
C30_WitnessTick ==
  /\ Called("tick") /\ Threw
  /\ log[Len(log)].t = "handler"
  /\ _state # cur.pre.state

(***************************************************************************)
(* Navigation with user code that calls back.  SpecReentrant constructs    *)
(* over MaxLen labels at index 0 or 1 with onChange configured and a       *)
(* handler for change or statechange or none; goTo, next and prev are      *)
(* called, and onChange and the handler return, throw or call back into    *)
(* the control.                                                            *)
(***************************************************************************)
ReentrantOptionChoices ==
  [collapsed : {DEFAULT_OPTIONS.collapsed}, labels : {Prefix(MaxLen)},
   initialIndex : {0, 1}, speed : {DEFAULT_OPTIONS.speed},
   loop : BOOLEAN, onChange : {TRUE}]

InitReentrant ==
  \E o \in ReentrantOptionChoices, hs \in RegisteredUpTo(1, {"change", "statechange"}) :
    LET m == constructor(o)
    IN /\ _options = m.options
       /\ _state = m.state
       /\ _playbackInterval = m.interval
       /\ timers = m.timers
       /\ _eventHandlers = hs
       /\ _map = m.map
       /\ log = <<>>
       /\ held = NothingHeld
       /\ cur = [IdleCur EXCEPT !.status = "new",
                             !.call = Call("constructor", o.initialIndex, o.labels, FALSE, "")]

NextReentrant == GoTo \/ NextLabel \/ PrevLabel \/ Tick \/ Return

SpecReentrant == InitReentrant /\ [][NextReentrant]_vars

(***************************************************************************)
(* C31.  When the onChange of a navigation calls goTo(j), that call        *)
(* starts from the index the navigation moved to, the one onChange was     *)
(* given; and when the navigation returns with nothing else having called  *)
(* back, currentIndex is j clamped, within the bounds of the labels.       *)
(***************************************************************************)
\* the navigation's onChange called goTo
OnChangeCalledGoTo ==
  /\ Ended
  /\ cur.call.op \in {"goTo", "next", "prev", "tick"}
  /\ Len(log) >= 3
  /\ log[2].t = "onChange" /\ log[2].d = 0
  /\ log[3].t = "call" /\ log[3].who = "goTo" /\ log[3].d = 1

C31_ReentrantGoTo ==
  OnChangeCalledGoTo =>
    /\ log[3].now.currentIndex = log[2].i
    /\ log[3].now.currentIndex # cur.pre.state.currentIndex
    /\ Called("goTo") =>
         log[3].now.currentIndex = Clamped(cur.call.i, cur.pre.options.labels)
    /\ (Returned /\ cur.re = 1) =>
         /\ _state.currentIndex = Clamped(log[3].i, _options.labels)
         /\ InRange(_state.currentIndex, _options.labels)

\* goTo(last) from index 1 whose onChange calls goTo(0)
C31_Witness ==
  /\ OnChangeCalledGoTo /\ Called("goTo") /\ Returned
  /\ cur.re = 1
  /\ cur.pre.state.currentIndex = 1
  /\ log[3].now.currentIndex = MaxLen - 1
  /\ log[3].i = 0
  /\ _state.currentIndex = 0

(***************************************************************************)
(* C32.  togglePlayback() has the effect of pause() when isPlaying is      *)
(* true and of play() otherwise; over non-empty labels, two                *)
(* togglePlayback() calls in a row that both return, with user code        *)
(* calling nothing back, leave isPlaying, the presence of a timer and      *)
(* currentIndex as they were.                                              *)
(***************************************************************************)
\* the states a returned togglePlayback() leads to from m
Toggled(m) ==
  {[x EXCEPT !.log = <<>>] :
     x \in {y \in ExecQuiet(Enter([m EXCEPT !.log = <<>>], Call0("togglePlayback"))) :
              ~y.threw}}
ToggledTwice == UNION {Toggled(x) : x \in Toggled(M)}

C32_TogglePlayback ==
  Between =>
    /\ Outcomes(Call0("togglePlayback"))
         = Outcomes(Call0(IF _state.isPlaying THEN "pause" ELSE "play"))
    /\ Len(_options.labels) > 0 =>
         \A m \in ToggledTwice :
           /\ m.state.isPlaying = _state.isPlaying
           /\ (m.timers # {}) = (timers # {})
           /\ (m.interval # 0) = (_playbackInterval # 0)
           /\ m.state.currentIndex = _state.currentIndex

\* a togglePlayback() that started playback, from where the next one
\* stops it again
C32_Witness ==
  /\ Called("togglePlayback") /\ Returned /\ Passive
  /\ ~cur.pre.state.isPlaying /\ cur.pre.timers = {}
  /\ _state.isPlaying /\ timers # {}
  /\ Tags(Notified(1)) = <<"play", "statechange">>
  /\ Toggled(M) # {}
  /\ \A m \in Toggled(M) : ~m.state.isPlaying /\ m.timers = {}

(***************************************************************************)
(* A caller that mirrors the index.  SpecMirror constructs over MaxLen     *)
(* labels with an onChange that notes the index it is given (and returns   *)
(* or throws); the first call is onAdd, then navigation, playback,         *)
(* setLabels and ticks follow.  What onChange noted last is in             *)
(* held.mirror when the call is over, with `reset` telling that a          *)
(* setLabels has moved the index since.                                    *)
(***************************************************************************)
InitMirror ==
  LET o == [DEFAULT_OPTIONS EXCEPT !.labels = Prefix(MaxLen), !.onChange = TRUE]
      m == constructor(o)
  IN /\ _options = m.options
     /\ _state = m.state
     /\ _playbackInterval = m.interval
     /\ timers = m.timers
     /\ _eventHandlers = m.handlers
     /\ _map = m.map
     /\ log = <<>>
     /\ held = NothingHeld
     /\ cur = [IdleCur EXCEPT !.status = "new",
                           !.call = Call("constructor", o.initialIndex, o.labels, FALSE, "")]

MirrorCalls ==
  {Call("goTo", i, <<>>, FALSE, "") : i \in IndexChoices}
  \cup {Call0(op) : op \in {"next", "prev", "play", "pause"}}
  \cup {Call("setLoop", 0, <<>>, b, "") : b \in BOOLEAN}
  \cup {Call("setLabels", 0, ls, b, "") : ls \in LabelChoices, b \in BOOLEAN}

AttachMirror == cur.status = "new" /\ InvokeQuiet(Call0("onAdd"))
CallMirror == cur.status = "idle" /\ \E c \in MirrorCalls : InvokeQuiet(c)
TickMirror == cur.status = "idle" /\ QuietTick

\* the invocations of onChange in the call that ended
LastOnChange == log[CHOOSE q \in OnChanges : \A r \in OnChanges : r <= q]

ReturnMirror ==
  /\ Ended
  /\ cur' = IdleCur
  /\ log' = <<>>
  /\ held' = [held EXCEPT !.mirror =
                IF OnChanges # {} THEN <<[i |-> LastOnChange.i, reset |-> FALSE]>>
                ELSE IF @ # <<>> /\ _state.currentIndex # cur.pre.state.currentIndex
                     THEN <<[@[1] EXCEPT !.reset = TRUE]>>
                     ELSE @]
  /\ UNCHANGED <<_options, _state, _playbackInterval, timers, _eventHandlers, _map>>

NextMirror == AttachMirror \/ CallMirror \/ TickMirror \/ ReturnMirror

SpecMirror == InitMirror /\ [][NextMirror]_vars

C34_PlayingIffTimer ==
  /\ _state.isPlaying <=> timers # {}
  /\ _state.isPlaying <=> _playbackInterval # 0
  /\ \A t \in timers : t.id = _playbackInterval
  /\ \A q \in DOMAIN log :
       (log[q].t \in {"handler", "onChange"} \/ (log[q].t = "call" /\ log[q].d > 0)) =>
         (log[q].now.isPlaying <=> log[q].timers > 0)

\* play() whose play handler throws: playing, with the timer running
C34_Witness ==
  /\ Called("play") /\ Threw
  /\ Tags(log) = <<"call", "play", "handler">>
  /\ _state.isPlaying /\ Cardinality(timers) = 1
  /\ log[3].now.isPlaying /\ log[3].timers = 1

\* a handler called during pause() that starts playback again
C34_WitnessReentrant ==
  /\ Called("pause") /\ Returned
  /\ \E q \in DOMAIN log :
       /\ log[q].t = "call" /\ log[q].d > 0 /\ log[q].who = "play"
       /\ ~log[q].now.isPlaying /\ log[q].timers = 0
  /\ _state.isPlaying /\ Cardinality(timers) = 1

(***************************************************************************)
(* Two subscribers.  SpecEvents constructs over MaxLen labels, not         *)
(* looping, and registers h1 for play and then h2 for play and for pause;  *)
(* play, pause, togglePlayback and the ticks follow, the handlers          *)
(* returning, throwing or calling back.                                    *)
(***************************************************************************)
InitEvents ==
  LET o == [DEFAULT_OPTIONS EXCEPT !.labels = Prefix(MaxLen), !.loop = FALSE]
      m == constructor(o)
  IN /\ _options = m.options
     /\ _state = m.state
     /\ _playbackInterval = m.interval
     /\ timers = m.timers
     /\ _eventHandlers = on(on(on(m, "play", "h1"), "play", "h2"), "pause", "h2").handlers
     /\ _map = m.map
     /\ log = <<>>
     /\ held = NothingHeld
     /\ cur = [IdleCur EXCEPT !.status = "new",
                           !.call = Call("constructor", o.initialIndex, o.labels, FALSE, "")]

NextEvents == Play \/ Pause \/ TogglePlayback \/ Tick \/ Return

SpecEvents == InitEvents /\ [][NextEvents]_vars

(***************************************************************************)
(* C35.  The play and pause events h2 receives during a call that returns  *)
(* alternate, begin with the one that changes the isPlaying the call       *)
(* started with, and end with the one that matches the isPlaying the call  *)
(* leaves, also when h1, registered earlier, calls pause() or play() from  *)
(* inside the emission.                                                    *)
(***************************************************************************)
\* what h2 received, in order
Received ==
  Ordered({q \in DOMAIN log : log[q].t = "handler" /\ log[q].who = "h2"})
\* only h1 called back into the control
OnlyFirstCalledBack ==
  \A q \in DOMAIN log :
    (log[q].t = "call" /\ log[q].d > 0) =>
      (log[q - 1].t = "handler" /\ log[q - 1].who = "h1")

C35_PlayPauseAlternate ==
  (Returned /\ OnlyFirstCalledBack /\ Received # <<>>) =>
    /\ \A j \in 1..(Len(Received) - 1) : Received[j].ev # Received[j + 1].ev
    /\ Received[1].ev = (IF cur.pre.state.isPlaying THEN "pause" ELSE "play")
    /\ Received[Len(Received)].ev = (IF _state.isPlaying THEN "play" ELSE "pause")

\* what holds: the same when no handler calls back
C35_PlayPauseAlternatePassive ==
  (Returned /\ Passive /\ Received # <<>>) =>
    /\ Len(Received) = 1
    /\ Received[1].ev = (IF cur.pre.state.isPlaying THEN "pause" ELSE "play")
    /\ Received[1].ev = (IF _state.isPlaying THEN "play" ELSE "pause")

(***************************************************************************)
(* C36.  A goTo, next, prev or tick that moves the index to k and returns  *)
(* emits change with a state whose currentIndex is k, also when its        *)
(* onChange navigates before it returns.                                   *)
(***************************************************************************)
\* the call moved the index and told onChange
Moved ==
  /\ Ended
  /\ cur.call.op \in {"goTo", "next", "prev", "tick"}
  /\ Len(log) >= 2
  /\ log[2].t = "onChange" /\ log[2].d = 0
\* the change events of the call itself
OwnChanges == {q \in DOMAIN log : log[q].t = "emit" /\ log[q].ev = "change" /\ log[q].d = 0}
\* nothing called back but onChange, and it called goTo
OnlyOnChangeNavigated ==
  \A q \in DOMAIN log :
    (log[q].t = "call" /\ log[q].d > 0) =>
      (log[q - 1].t = "onChange" /\ log[q].who = "goTo")

C36_ChangeCarriesIndex ==
  (Moved /\ Returned /\ OnlyOnChangeNavigated) =>
    /\ Cardinality(OwnChanges) = 1
    /\ \A q \in OwnChanges : log[q].snap.currentIndex = log[2].i

\* what holds: the same when user code calls nothing back
C36_ChangeCarriesIndexPassive ==
  (Moved /\ Returned /\ Passive) =>
    /\ Cardinality(OwnChanges) = 1
    /\ \A q \in OwnChanges :
         /\ log[q].snap.currentIndex = log[2].i
         /\ log[q].snap.currentIndex = _state.currentIndex

(***************************************************************************)
(* C37.  Every handler is invoked with a state equal to the runtime state  *)
(* at that moment, also when an earlier handler of the same event has      *)
(* called an operation that changes the state.                             *)
(***************************************************************************)
HandlerCalls == {q \in DOMAIN log : log[q].t = "handler"}

C37_SnapshotIsCurrent ==
  \A q \in HandlerCalls : log[q].snap = log[q].now

\* what holds: the first handler of every emission is given the current
\* state, and every handler is when none calls back
C37_SnapshotIsCurrentFirst ==
  /\ \A q \in HandlerCalls :
       (log[q - 1].t = "emit" /\ log[q - 1].ev = log[q].ev /\ log[q - 1].d = log[q].d) =>
         log[q].snap = log[q].now
  /\ Passive => \A q \in HandlerCalls : log[q].snap = log[q].now

(***************************************************************************)
(* C38.  In every reachable state, isPlaying implies that the label        *)
(* sequence is non-empty.                                                  *)
(***************************************************************************)
C38_PlayingHasLabels ==
  _state.isPlaying => Len(_options.labels) > 0

\* what holds: playback over no labels begins with a setLabels during
\* playback, never with play()
PlayingOnEmpty == _state.isPlaying /\ Len(_options.labels) = 0

C38_OnlySetLabelsEmpties ==
  [][(~PlayingOnEmpty /\ PlayingOnEmpty') =>
       (cur'.call.op = "setLabels" /\ _state.isPlaying)]_vars

(***************************************************************************)
(* Looping playback left alone.  SpecLoop constructs looping, over two     *)
(* labels or MaxLen, at any index, with or without onChange and a handler  *)
(* for change or statechange; play() is called and from then on only the   *)
(* interval fires, user code returning or throwing.  The runtime fires an  *)
(* active interval again and again, and the code that called goes on:      *)
(* weak fairness of TickLoop and of Return.                                *)
(***************************************************************************)
LoopOptionChoices ==
  [collapsed : {DEFAULT_OPTIONS.collapsed}, labels : {Prefix(2), Prefix(MaxLen)},
   initialIndex : IndexChoices, speed : {DEFAULT_OPTIONS.speed},
   loop : {TRUE}, onChange : BOOLEAN]

InitLoop ==
  \E o \in LoopOptionChoices, hs \in RegisteredUpTo(1, {"change", "statechange"}) :
    LET m == constructor(o)
    IN /\ _options = m.options
       /\ _state = m.state
       /\ _playbackInterval = m.interval
       /\ timers = m.timers
       /\ _eventHandlers = hs
       /\ _map = m.map
       /\ log = <<>>
       /\ held = NothingHeld
       /\ cur = [IdleCur EXCEPT !.status = "new",
                             !.call = Call("constructor", o.initialIndex, o.labels, FALSE, "")]

PlayLoop == cur.status = "new" /\ InvokeQuiet(Call0("play"))
TickLoop == cur.status = "idle" /\ QuietTick

NextLoop == PlayLoop \/ TickLoop \/ Return

SpecLoop == InitLoop /\ [][NextLoop]_vars /\ WF_vars(TickLoop) /\ WF_vars(Return)

(***************************************************************************)
(* C39.  Looping over at least two labels with nothing but ticks after     *)
(* play(): play() starts playback with one timer, and every tick leaves    *)
(* playback on with that timer and moves the index to the next one, from   *)
(* the last to 0; a tick that returns has called onChange, if configured,  *)
(* with the new index and emitted change carrying it.  A tick can fire     *)
(* whenever no call is running, so with ticks delivered fairly every       *)
(* index is visited again and again, in cyclic order.                      *)
(***************************************************************************)
NextInCycle(i, labels) == IF i < Len(labels) - 1 THEN Max(0, i + 1) ELSE 0

C39_LoopForever ==
  [][/\ PlayLoop => (_state'.isPlaying /\ Cardinality(timers') = 1)
     /\ Return => (UNCHANGED <<_state, timers, _options>> /\ cur'.status = "idle")
     /\ TickLoop =>
          /\ _state'.isPlaying /\ timers' = timers /\ timers' # {}
          /\ _state'.currentIndex = NextInCycle(_state.currentIndex, _options.labels)
          /\ InRange(_state'.currentIndex, _options'.labels)
          /\ (cur'.status = "done") =>
               /\ Tags(Tail(log')) = (IF _options.onChange THEN <<"onChange">> ELSE <<>>)
                                       \o <<"change">>
                                       \o (IF _eventHandlers["change"] # <<>>
                                           THEN <<"handler">> ELSE <<>>)
                                       \o <<"statechange">>
                                       \o (IF _eventHandlers["statechange"] # <<>>
                                           THEN <<"handler">> ELSE <<>>)
               /\ \A q \in DOMAIN log' :
                    /\ log'[q].t = "onChange" => log'[q].i = _state'.currentIndex
                    /\ log'[q].t = "emit" =>
                         log'[q].snap.currentIndex = _state'.currentIndex]_vars

\* with it: after play() a tick can fire whenever no call is running
C39_TickCanFire ==
  cur.status # "new" => (_state.isPlaying /\ timers # {} /\ cur.status \in {"idle", "done", "threw"})

\* the tick that wraps from the last label to the first, seen by onChange
\* and by a change handler
C39_Witness ==
  /\ Called("tick") /\ Returned
  /\ cur.pre.state.currentIndex = MaxLen - 1
  /\ _state.currentIndex = 0 /\ _state.isPlaying /\ timers # {}
  /\ Tags(Tail(log)) = <<"onChange", "change", "handler", "statechange">>

(***************************************************************************)
(* C40.  With user code that calls nothing back: toggle(), expand() and    *)
(* collapse() change nothing but collapsed (not currentIndex, isPlaying,   *)
(* speed, loop, the labels, the timer or its handle); expand() on an       *)
(* expanded control and collapse() on a collapsed one change nothing and   *)
(* emit nothing; goTo, next, prev, play, pause, setSpeed, setLoop,         *)
(* setLabels and ticks leave collapsed as it was, and from two states      *)
(* that differ only in collapsed they do the same things: the same final   *)
(* states, notifications and endings, up to the collapsed flag the states  *)
(* and payloads carry.                                                     *)
(***************************************************************************)
PanelCalls == {"toggle", "expand", "collapse"}

CollapsedBlind ==
  {c \in PublicCalls : c.op \in {"goTo", "next", "prev", "play", "pause", "setSpeed",
                                  "setLoop", "setLabels"}}
  \cup {TickCall(t.id) : t \in timers}

\* the same machine, collapsed the other way everywhere it is recorded
OtherPanel(m) ==
  [m EXCEPT !.state.collapsed = ~@,
            !.log = [q \in DOMAIN @ |->
                       [@[q] EXCEPT !.now.collapsed = ~@,
                                    !.snap = IF @ = <<>> THEN @
                                             ELSE [@ EXCEPT !.collapsed = ~@]]]]

QuietOutcomesFrom(m, c) == {[x EXCEPT !.log = Tail(@)] : x \in ExecQuiet(Enter(m, c))}

C40_CollapsedFrame ==
  /\ (Ended /\ cur.call.op \in PanelCalls) =>
       Pre = [cur.pre EXCEPT !.state.collapsed = _state.collapsed]
  /\ (Ended /\ cur.call.op = "expand" /\ ~cur.pre.state.collapsed) => ChangedNothing
  /\ (Ended /\ cur.call.op = "collapse" /\ cur.pre.state.collapsed) => ChangedNothing
  /\ (Ended /\ cur.call.op \in {c.op : c \in CollapsedBlind} \cup {"tick"}) =>
       /\ _state.collapsed = cur.pre.state.collapsed
       /\ \A q \in DOMAIN log : log[q].now.collapsed = cur.pre.state.collapsed
  /\ Between =>
       \A c \in CollapsedBlind :
         QuietOutcomesFrom(OtherPanel(M), c)
           = {OtherPanel(x) : x \in QuietOutcomesFrom(M, c)}

\* toggle() during playback away from the first label, with a handler told
C40_Witness ==
  /\ Called("toggle") /\ Returned
  /\ cur.pre.state.isPlaying /\ cur.pre.state.currentIndex > 0
  /\ cur.pre.timers # {}
  /\ _state.collapsed # cur.pre.state.collapsed
  /\ \E q \in DOMAIN log : log[q].t = "handler"

\* a tick on an expanded control, and expand() on it
C40_WitnessExpanded ==
  /\ Called("tick") /\ Returned /\ ~cur.pre.state.collapsed
  /\ _state.currentIndex = cur.pre.state.currentIndex + 1

C40_WitnessNoOp ==
  /\ Called("expand") /\ ~cur.pre.state.collapsed /\ cur.pre.state.isPlaying

====
